---- MODULE Spec2Model ----
(***************************************************************************)
(* ProjEB: a notebook / entry / note / tag store kept in one SQLite file   *)
(* (database.py, class Database) behind a command layer (peb.py, class     *)
(* ProjEB).                                                                *)
(*                                                                         *)
(* The database file is the record db: one set of rows per table plus the  *)
(* sqlite_sequence counters of the AUTOINCREMENT keys.  Database.conn is   *)
(* the record conn: what the connection last opened by connect() sees,     *)
(* its uncommitted work included.  Every Database method opens a new       *)
(* connection; the one it replaces is dropped, which rolls its open        *)
(* transaction back.                                                       *)
(*                                                                         *)
(* created_at is not a column of the model: within one table it grows      *)
(* with the AUTOINCREMENT id, so ORDER BY created_at DESC is modelled as   *)
(* descending id.  PRAGMA foreign_keys is never set, so the FOREIGN KEY    *)
(* clauses of the schema are not enforced.  A link table is a set of       *)
(* rows: several (note_id, NULL) rows of note_tags count as one.           *)
(*                                                                         *)
(* The files beside the database are the record fs: the configured         *)
(* attachments directory and its files, the archives of the backup         *)
(* directory, the documents of the export directory, and whether those     *)
(* two directories can be written; also configuration.ini, whether the     *)
(* database file is there ("absent", "empty" for a file without tables,    *)
(* "tables") and which of the configured directories exist.  While the     *)
(* file has no tables db is create_database, the content the file gets     *)
(* when the tables are made.  exit is the exit status of the               *)
(* process when a command is run by main(), NULL when a method is called   *)
(* on an instance.                                                         *)
(*                                                                         *)
(* handles counts the sqlite3 connections the process has open: opened     *)
(* are those the last call opened, held those that were open before it.    *)
(* A connection is closed by close() or, under CPython, as soon as nothing *)
(* names it.                                                               *)
(***************************************************************************)
EXTENDS Integers, Sequences, FiniteSets, TLC

VARIABLES db, conn, op, ret, fs, exit, handles

vars == <<db, conn, op, ret, fs, exit, handles>>

(***************************************************************************)
(* Bounds of the model.                                                    *)
(***************************************************************************)
MaxNotebooks == 2
MaxEntries == 2
MaxNotes == 1
MaxTagId == 3
MaxBackups == 2
MaxExports == 1
MaxWritten == 1

(***************************************************************************)
(* Values.                                                                 *)
(***************************************************************************)
\* Python None / SQL NULL where an integer is expected.
NULL == -1
\* Python None / SQL NULL where a text of characters is expected.
NullStr == <<"NULL">>
\* Python None / SQL NULL where a name or a description is expected.
NoName == "None"

\* Python truthiness of an integer or None: `if notebook_id:`.
Truthy(x) == x # NULL /\ x # 0


(***************************************************************************)
(* Texts are sequences of characters, so that LIKE can be computed.        *)
(***************************************************************************)
Lower(ch) ==
    CASE ch = "A" -> "a"
      [] ch = "B" -> "b"
      [] OTHER -> ch

RECURSIVE LikeMatch(_, _)
\* SQLite's LIKE: % matches any run of characters, _ any one character,
\* any other character matches itself without regard to ASCII case.
LikeMatch(pat, s) ==
    IF pat = <<>> THEN s = <<>>
    ELSE IF Head(pat) = "%"
         THEN \/ LikeMatch(Tail(pat), s)
              \/ s # <<>> /\ LikeMatch(pat, Tail(s))
    ELSE IF Head(pat) = "_"
         THEN s # <<>> /\ LikeMatch(Tail(pat), Tail(s))
    ELSE /\ s # <<>>
         /\ Lower(Head(pat)) = Lower(Head(s))
         /\ LikeMatch(Tail(pat), Tail(s))

\* column LIKE ? : NULL LIKE anything is NULL, which WHERE takes as false.
Like(col, pat) == col # NullStr /\ LikeMatch(pat, col)

\* f"%{query}%"
SearchPattern(query) == <<"%">> \o query \o <<"%">>

(***************************************************************************)
(* The schema: an empty database file.                                     *)
(***************************************************************************)
create_database ==
    [ notebooks   |-> {},   \* [id, name, description, status]
      entries     |-> {},   \* [id, notebook_id, title, content]
      notes       |-> {},   \* [id, entry_id, content]
      tags        |-> {},   \* [id, name, description]
      attachments |-> {},   \* [id, original_name, stored_name, entry_id, note_id]
      entry_tags  |-> {},   \* [entry_id, tag_id]
      note_tags   |-> {},   \* [note_id, tag_id]
      seq |-> [notebooks |-> 0, entries |-> 0, notes |-> 0, tags |-> 0,
               attachments |-> 0] ]

\* A store is the database file together with Database.conn.
Store(d, c) == [db |-> d, conn |-> c]

\* connect(): a new connection, which sees the committed file; the connection
\* it replaces is dropped and its uncommitted work is lost.
\* A variant that keeps the open connection, and with it the transaction a
\* failed call left open; C5 tells it from connect().
Connect_KeepOpen(s) == s.conn

Connect(s) == s.db

\* conn.commit(): the connection's view becomes the file.
Commit(d) == Store(d, d)

\* A method that ends in `except sqlite3.Error`: nothing is committed and the
\* connection keeps whatever the transaction had done.
Uncommitted(s, d) == Store(s.db, d)

(***************************************************************************)
(* SQL statements.  Each yields [ok, id, d]: whether it ran, lastrowid,    *)
(* and the connection's view after it.                                     *)
(***************************************************************************)
SqlResult(ok, id, d) == [ok |-> ok, id |-> id, d |-> d]

\* UNIQUE(name) of notebooks.
NotebookNameTaken(d, name) == \E r \in d.notebooks : r.name = name

\* A variant for a name column without UNIQUE; C2 tells it from the table's.
InsertNotebook_NoUnique(d, name, description) ==
    LET id == d.seq.notebooks + 1 IN
    SqlResult(TRUE, id,
        [d EXCEPT !.notebooks = @ \cup {[id |-> id, name |-> name,
                                        description |-> description,
                                        status |-> "active"]},
                  !.seq.notebooks = id])

\* INSERT INTO notebooks(name, description, created_at); status DEFAULT 'active'.
InsertNotebook(d, name, description) ==
    IF NotebookNameTaken(d, name)
    THEN SqlResult(FALSE, NULL, d)
    ELSE LET id == d.seq.notebooks + 1 IN
         SqlResult(TRUE, id,
            [d EXCEPT !.notebooks = @ \cup {[id |-> id, name |-> name,
                                            description |-> description,
                                            status |-> "active"]},
                      !.seq.notebooks = id])

\* UNIQUE(notebook_id, title) of entries.
EntryTitleTaken(d, notebook_id, title) ==
    \E r \in d.entries : r.notebook_id = notebook_id /\ r.title = title

\* A variant for a table without UNIQUE(notebook_id, title); C11 tells it
\* from the table's.
InsertEntry_AnyTitle(d, notebook_id, title, content) ==
    LET id == d.seq.entries + 1 IN
    SqlResult(TRUE, id,
        [d EXCEPT !.entries = @ \cup {[id |-> id, notebook_id |-> notebook_id,
                                      title |-> title, content |-> content]},
                  !.seq.entries = id])

\* INSERT INTO entries(notebook_id, title, content, created_at)
InsertEntry(d, notebook_id, title, content) ==
    IF EntryTitleTaken(d, notebook_id, title)
    THEN SqlResult(FALSE, NULL, d)
    ELSE LET id == d.seq.entries + 1 IN
         SqlResult(TRUE, id,
            [d EXCEPT !.entries = @ \cup {[id |-> id, notebook_id |-> notebook_id,
                                          title |-> title, content |-> content]},
                      !.seq.entries = id])

\* INSERT INTO notes(entry_id, content, created_at); content is NOT NULL.
InsertNote(d, entry_id, content) ==
    IF content = NullStr
    THEN SqlResult(FALSE, NULL, d)
    ELSE LET id == d.seq.notes + 1 IN
         SqlResult(TRUE, id,
            [d EXCEPT !.notes = @ \cup {[id |-> id, entry_id |-> entry_id,
                                        content |-> content]},
                      !.seq.notes = id])

\* UNIQUE(name) of tags.
TagNameTaken(d, name) == \E r \in d.tags : r.name = name

\* INSERT INTO tags(name, description)
InsertTag(d, name, description) ==
    IF TagNameTaken(d, name)
    THEN SqlResult(FALSE, NULL, d)
    ELSE LET id == d.seq.tags + 1 IN
         SqlResult(TRUE, id,
            [d EXCEPT !.tags = @ \cup {[id |-> id, name |-> name,
                                       description |-> description]},
                      !.seq.tags = id])

\* PRIMARY KEY (entry_id, tag_id): a NULL in the key never collides.
EntryTagTaken(d, entry_id, tag_id) ==
    /\ entry_id # NULL
    /\ tag_id # NULL
    /\ [entry_id |-> entry_id, tag_id |-> tag_id] \in d.entry_tags

\* INSERT INTO entry_tags(entry_id, tag_id)
InsertEntryTag(d, entry_id, tag_id) ==
    IF EntryTagTaken(d, entry_id, tag_id)
    THEN SqlResult(FALSE, NULL, d)
    ELSE SqlResult(TRUE, NULL,
            [d EXCEPT !.entry_tags = @ \cup {[entry_id |-> entry_id,
                                             tag_id |-> tag_id]}])

\* PRIMARY KEY (note_id, tag_id)
NoteTagTaken(d, note_id, tag_id) ==
    /\ note_id # NULL
    /\ tag_id # NULL
    /\ [note_id |-> note_id, tag_id |-> tag_id] \in d.note_tags

\* INSERT INTO note_tags(note_id, tag_id)
InsertNoteTag(d, note_id, tag_id) ==
    IF NoteTagTaken(d, note_id, tag_id)
    THEN SqlResult(FALSE, NULL, d)
    ELSE SqlResult(TRUE, NULL,
            [d EXCEPT !.note_tags = @ \cup {[note_id |-> note_id,
                                            tag_id |-> tag_id]}])

(***************************************************************************)
(* Files.  A path is [dir, stem, suffix]; Path(p).name is <<stem, suffix>>.*)
(***************************************************************************)
PathOf(dir, stem, suffix) == [dir |-> dir, stem |-> stem, suffix |-> suffix]

\* Path(file_path).name
PathName(p) == <<p.stem, p.suffix>>

\* Path(file_path).suffix
PathSuffix(p) == p.suffix

\* The files the user has on disk: Path(attachment).exists() is membership.
ExistingFiles == {PathOf("home", "data", ".txt")}

PathExists(p) == p \in ExistingFiles

(***************************************************************************)
(* Query results in the order the SELECT gives them.                       *)
(***************************************************************************)
RECURSIVE OrderByIdDesc(_)
\* ORDER BY created_at DESC
OrderByIdDesc(rows) ==
    IF rows = {} THEN <<>>
    ELSE LET m == CHOOSE r \in rows : \A o \in rows : o.id <= r.id IN
         <<m>> \o OrderByIdDesc(rows \ {m})

\* The tag and notebook names of the model, in the order TEXT compares them.
NameOrder == <<"A", "B", "M", "n1", "n2", "n3", "x", "y">>

NameRank(name) == CHOOSE i \in 1..Len(NameOrder) : NameOrder[i] = name

RECURSIVE OrderByName(_)
\* ORDER BY name
OrderByName(rows) ==
    IF rows = {} THEN <<>>
    ELSE LET m == CHOOSE r \in rows :
                     \A o \in rows : NameRank(r.name) <= NameRank(o.name) IN
         <<m>> \o OrderByName(rows \ {m})

\* The set of the elements of a sequence.
Range(q) == {q[i] : i \in 1..Len(q)}

(***************************************************************************)
(* class Database.  Each method yields [s, ret]: the store after the call  *)
(* and the value returned.                                                 *)
(***************************************************************************)
DbResult(s, r) == [s |-> s, ret |-> r]

\* A method that only reads: connect(), SELECT, fetch.
Reading(s, rows) == DbResult(Commit(Connect(s)), rows)

Database_create_notebook(s, name, description) ==
    LET r == InsertNotebook(Connect(s), name, description) IN
    IF r.ok THEN DbResult(Commit(r.d), r.id)
    ELSE DbResult(Uncommitted(s, r.d), NULL)

Database_get_notebooks(s) ==
    Reading(s, OrderByIdDesc(Connect(s).notebooks))

\* get_entries without filters: SELECT * FROM entries ORDER BY created_at DESC
Database_get_entries(s) ==
    Reading(s, OrderByIdDesc(Connect(s).entries))

\* SELECT * FROM notes WHERE entry_id = ? ORDER BY created_at DESC
Database_get_notes(s, entry_id) ==
    Reading(s, OrderByIdDesc({n \in Connect(s).notes : n.entry_id = entry_id}))

\* fetchone(): the row of that name, or None.
Database_get_notebook_by_name(s, name) ==
    LET hit == {r \in Connect(s).notebooks : r.name = name} IN
    Reading(s, IF hit = {} THEN <<>> ELSE <<CHOOSE r \in hit : TRUE>>)

\* uuid.uuid4(): a value no earlier call returned.
uuid4(d) == d.seq.attachments + 1

\* add_attachment on the connection create_entry / create_note opened.
add_attachment(d, entry_id, note_id, file_path) ==
    LET id == d.seq.attachments + 1 IN
    [d EXCEPT !.attachments = @ \cup
                 {[id |-> id,
                   original_name |-> PathName(file_path),
                   stored_name |-> [uuid |-> uuid4(d),
                                    suffix |-> PathSuffix(file_path)],
                   entry_id |-> entry_id,
                   note_id |-> note_id]},
              !.seq.attachments = id]

RECURSIVE AddAttachments(_, _, _, _)
\* for attachment in attachments: self.add_attachment(...)
AddAttachments(d, entry_id, note_id, attachments) ==
    IF attachments = <<>> THEN d
    ELSE AddAttachments(add_attachment(d, entry_id, note_id, Head(attachments)),
                        entry_id, note_id, Tail(attachments))

Database_create_entry(s, notebook_id, title, content, attachments) ==
    LET r == InsertEntry(Connect(s), notebook_id, title, content) IN
    IF r.ok
    THEN DbResult(Commit(AddAttachments(r.d, r.id, NULL, attachments)), r.id)
    ELSE DbResult(Uncommitted(s, r.d), NULL)

Database_create_note(s, entry_id, content, attachments) ==
    LET r == InsertNote(Connect(s), entry_id, content) IN
    IF r.ok
    THEN DbResult(Commit(AddAttachments(r.d, NULL, r.id, attachments)), r.id)
    ELSE DbResult(Uncommitted(s, r.d), NULL)

\* Database.create_tag: an INSERT, None when the name is taken.
Database_create_tag(s, name, description) ==
    LET r == InsertTag(Connect(s), name, description) IN
    IF r.ok THEN DbResult(Commit(r.d), r.id)
    ELSE DbResult(Uncommitted(s, r.d), NULL)

Database_add_tag_to_entry(s, entry_id, tag_id) ==
    LET r == InsertEntryTag(Connect(s), entry_id, tag_id) IN
    IF r.ok THEN DbResult(Commit(r.d), TRUE)
    ELSE DbResult(Uncommitted(s, r.d), FALSE)

Database_add_tag_to_note(s, note_id, tag_id) ==
    LET r == InsertNoteTag(Connect(s), note_id, tag_id) IN
    IF r.ok THEN DbResult(Commit(r.d), TRUE)
    ELSE DbResult(Uncommitted(s, r.d), FALSE)

Database_get_tags(s) == Reading(s, OrderByName(Connect(s).tags))

\* tags t JOIN entry_tags et ON t.id = et.tag_id WHERE et.entry_id = ?
EntryTagRows(d, entry_id) ==
    {t \in d.tags : [entry_id |-> entry_id, tag_id |-> t.id] \in d.entry_tags}

Database_get_entry_tags(s, entry_id) ==
    Reading(s, OrderByName(EntryTagRows(Connect(s), entry_id)))

\* tags t JOIN note_tags nt ON t.id = nt.tag_id WHERE nt.note_id = ?
NoteTagRows(d, note_id) ==
    {t \in d.tags : [note_id |-> note_id, tag_id |-> t.id] \in d.note_tags}

Database_get_note_tags(s, note_id) ==
    Reading(s, OrderByName(NoteTagRows(Connect(s), note_id)))

Database_get_tag_by_name(s, name) ==
    LET hit == {r \in Connect(s).tags : r.name = name} IN
    Reading(s, IF hit = {} THEN <<>> ELSE <<CHOOSE r \in hit : TRUE>>)

\* UPDATE notebooks SET status = ? WHERE id = ?
Database_update_notebook_status(s, notebook_id, status) ==
    LET d == Connect(s) IN
    DbResult(Commit([d EXCEPT !.notebooks =
                        {IF r.id = notebook_id THEN [r EXCEPT !.status = status]
                         ELSE r : r \in @}]),
             TRUE)

\* x = ?: NULL equals nothing.
SqlEq(x, y) == x # NULL /\ y # NULL /\ x = y

\* A variant that deletes the row of tags alone; C27 tells it from the
\* three statements.
Database_delete_tag_TagOnly(s, tag_id) ==
    LET d == Connect(s) IN
    DbResult(Commit([d EXCEPT !.tags = {g \in @ : ~SqlEq(g.id, tag_id)}]),
             TRUE)

\* Database.delete_tag: DELETE FROM entry_tags WHERE tag_id = ?, DELETE FROM
\* note_tags WHERE tag_id = ?, DELETE FROM tags WHERE id = ?, and commit.
Database_delete_tag(s, tag_id) ==
    LET d == Connect(s) IN
    DbResult(Commit([d EXCEPT
                        !.entry_tags = {l \in @ : ~SqlEq(l.tag_id, tag_id)},
                        !.note_tags = {l \in @ : ~SqlEq(l.tag_id, tag_id)},
                        !.tags = {g \in @ : ~SqlEq(g.id, tag_id)}]),
             TRUE)

\* x IN (?, ?, ...): NULL is in no list.
SqlIn(x, list) == x # NULL /\ x \in Range(list)

\* Database.search: the rows of entries the WHERE clause keeps.  With a tag,
\* entries LEFT JOIN entry_tags is filtered on et.tag_id and made DISTINCT.
SearchRows(d, query, tag_id) ==
    LET pat == SearchPattern(query)
        hit == {e \in d.entries : Like(e.title, pat) \/ Like(e.content, pat)}
    IN  IF Truthy(tag_id)
        THEN {e \in hit : \E et \in d.entry_tags :
                              et.entry_id = e.id /\ et.tag_id = tag_id}
        ELSE hit

Database_search(s, query, tag_id) ==
    Reading(s, OrderByIdDesc(SearchRows(Connect(s), query, tag_id)))

\* A variant that selects without DISTINCT and by the first old id alone;
\* C3 tells it from the statement.
MergeEntryTags_FirstOnly(d, new_tag_id, old_tag_ids) ==
    LET sel == {r.entry_id : r \in {x \in d.entry_tags :
                                        /\ old_tag_ids # <<>>
                                        /\ x.tag_id = old_tag_ids[1]}}
    IN  IF \E e \in sel : EntryTagTaken(d, e, new_tag_id)
        THEN SqlResult(FALSE, NULL, d)
        ELSE SqlResult(TRUE, NULL,
                [d EXCEPT !.entry_tags = @ \cup
                    {[entry_id |-> e, tag_id |-> new_tag_id] : e \in sel}])

\* INSERT INTO entry_tags (entry_id, tag_id)
\*   SELECT DISTINCT entry_id, ? FROM entry_tags WHERE tag_id IN (...)
MergeEntryTags(d, new_tag_id, old_tag_ids) ==
    LET sel == {r.entry_id : r \in {x \in d.entry_tags :
                                        SqlIn(x.tag_id, old_tag_ids)}}
    IN  IF \E e \in sel : EntryTagTaken(d, e, new_tag_id)
        THEN SqlResult(FALSE, NULL, d)
        ELSE SqlResult(TRUE, NULL,
                [d EXCEPT !.entry_tags = @ \cup
                    {[entry_id |-> e, tag_id |-> new_tag_id] : e \in sel}])

\* INSERT INTO note_tags (note_id, tag_id)
\*   SELECT DISTINCT note_id, ? FROM note_tags WHERE tag_id IN (...)
MergeNoteTags(d, new_tag_id, old_tag_ids) ==
    LET sel == {r.note_id : r \in {x \in d.note_tags :
                                       SqlIn(x.tag_id, old_tag_ids)}}
    IN  IF \E n \in sel : NoteTagTaken(d, n, new_tag_id)
        THEN SqlResult(FALSE, NULL, d)
        ELSE SqlResult(TRUE, NULL,
                [d EXCEPT !.note_tags = @ \cup
                    {[note_id |-> n, tag_id |-> new_tag_id] : n \in sel}])

\* DELETE FROM tags WHERE id IN (...)
DeleteTags(d, old_tag_ids) ==
    [d EXCEPT !.tags = {t \in @ : ~SqlIn(t.id, old_tag_ids)}]

\* Database.merge_tags: four statements in one transaction, committed at the
\* end; the first statement that fails ends the method with None.
Database_merge_tags(s, old_tag_ids, new_tag_name) ==
    LET r1 == InsertTag(Connect(s), new_tag_name, NoName)
        r2 == MergeEntryTags(r1.d, r1.id, old_tag_ids)
        r3 == MergeNoteTags(r2.d, r1.id, old_tag_ids)
    IN  IF ~r1.ok THEN DbResult(Uncommitted(s, r1.d), NULL)
        ELSE IF ~r2.ok THEN DbResult(Uncommitted(s, r2.d), NULL)
        ELSE IF ~r3.ok THEN DbResult(Uncommitted(s, r3.d), NULL)
        ELSE DbResult(Commit(DeleteTags(r3.d, old_tag_ids)), r1.id)

(***************************************************************************)
(* class ProjEB.  Each command yields [s, ret]: the store after it and     *)
(* what _output returned.                                                  *)
(***************************************************************************)
\* The data of a result: None, {'id': n}, or a list of rows.
DataNone == [kind |-> "None"]
DataId(id) == [kind |-> "dict", id |-> id]
DataList(rows) == [kind |-> "list", rows |-> rows]

\* ProjEB.api_mode, as the tests construct it.
api_mode == TRUE

\* _output: the {message, data} result in API mode, nothing otherwise.
Output(message, data) ==
    IF api_mode THEN [message |-> message, data |-> data]
    ELSE [message |-> NoName, data |-> DataNone]

CmdResult(s, message, data) == [s |-> s, ret |-> Output(message, data)]

ProjEB_create_notebook(s, args) ==
    LET r == Database_create_notebook(s, args.name, args.description) IN
    IF Truthy(r.ret)
    THEN CmdResult(r.s, "Notebook created successfully", DataId(r.ret))
    ELSE CmdResult(r.s, "Failed to create notebook", DataNone)

\* formatted_notebooks: ID, Name, Description, Status of each row.
ProjEB_list_notebooks(s) ==
    LET r == Database_get_notebooks(s) IN
    CmdResult(r.s, "Notebooks:",
              DataList([i \in 1..Len(r.ret) |->
                          [ID |-> r.ret[i].id, Name |-> r.ret[i].name,
                           Description |-> r.ret[i].description,
                           Status |-> r.ret[i].status]]))

\* formatted_tags: ID, Name, Description of each row.
ProjEB_list_tags(s) ==
    LET r == Database_get_tags(s) IN
    CmdResult(r.s, "Tags:",
              DataList([i \in 1..Len(r.ret) |->
                          [ID |-> r.ret[i].id, Name |-> r.ret[i].name,
                           Description |-> r.ret[i].description]]))

RECURSIVE TagEntry(_, _, _)
\* for tag_name in args.tags.split(','): create_tag, and add_tag_to_entry
\* when create_tag returned an id.
TagEntry(s, entry_id, tags) ==
    IF tags = <<>> THEN s
    ELSE LET t == Database_create_tag(s, Head(tags), "")
             s2 == IF Truthy(t.ret)
                   THEN Database_add_tag_to_entry(t.s, entry_id, t.ret).s
                   ELSE t.s
         IN  TagEntry(s2, entry_id, Tail(tags))

\* The notebook id create_entry resolves from --notebook or --notebook-id:
\* [s, found, id, message].
\* A variant that takes --notebook-id as given; C10 tells it from the code.
ResolveNotebook_Unverified(s, args) ==
    IF args.notebook # NoName
    THEN LET r == Database_get_notebook_by_name(s, args.notebook) IN
         [s |-> r.s,
          id |-> IF r.ret # <<>> THEN r.ret[1].id ELSE NULL,
          message |-> "Failed to create entry: Notebook not found"]
    ELSE [s |-> s,
          id |-> IF Truthy(args.notebook_id) THEN args.notebook_id ELSE NULL,
          message |-> "Failed to create entry: Notebook not found"]

ResolveNotebook(s, args) ==
    IF args.notebook # NoName
    THEN LET r == Database_get_notebook_by_name(s, args.notebook) IN
         [s |-> r.s,
          id |-> IF r.ret # <<>> THEN r.ret[1].id ELSE NULL,
          message |-> "Failed to create entry: Notebook not found"]
    ELSE IF Truthy(args.notebook_id)
    THEN LET r == Database_get_notebooks(s) IN
         IF \E i \in 1..Len(r.ret) : r.ret[i].id = args.notebook_id
         THEN [s |-> r.s, id |-> args.notebook_id,
               message |-> "Failed to create entry: Notebook not found"]
         ELSE [s |-> r.s, id |-> NULL,
               message |-> "Failed to create entry: Notebook ID not found"]
    ELSE [s |-> s, id |-> NULL,
          message |-> "Failed to create entry: Notebook not found"]

\* A variant that looks at the first path alone; C9 tells it from the loop.
MissingAttachment_FirstOnly(attachments) ==
    attachments # <<>> /\ ~PathExists(attachments[1])

\* The first attachment path that does not exist, as the loop finds it.
MissingAttachment(attachments) ==
    \E i \in 1..Len(attachments) : ~PathExists(attachments[i])

ProjEB_create_entry(s, args) ==
    LET nb == ResolveNotebook(s, args) IN
    IF ~Truthy(nb.id) THEN CmdResult(nb.s, nb.message, DataNone)
    ELSE IF MissingAttachment(args.attachments)
    THEN CmdResult(nb.s, "Failed to create entry: Attachment not found", DataNone)
    ELSE LET r == Database_create_entry(nb.s, nb.id, args.title, args.content,
                                        args.attachments)
         IN  IF Truthy(r.ret)
             THEN CmdResult(TagEntry(r.s, r.ret, args.tags),
                            "Entry created successfully", DataId(r.ret))
             ELSE CmdResult(r.s, "Failed to create entry", DataNone)

RECURSIVE TagNote(_, _, _)
\* for tag_name in args.tags.split(','): create_tag, then add_tag_to_note
\* with whatever create_tag returned.
TagNote(s, note_id, tags) ==
    IF tags = <<>> THEN s
    ELSE LET t == Database_create_tag(s, Head(tags), "")
         IN  TagNote(Database_add_tag_to_note(t.s, note_id, t.ret).s,
                     note_id, Tail(tags))

ProjEB_create_note(s, args) ==
    LET r == Database_create_note(s, args.entry_id, args.content,
                                  args.attachments)
    IN  IF Truthy(r.ret)
        THEN CmdResult(TagNote(r.s, r.ret, args.tags),
                       "Note created successfully", DataId(r.ret))
        ELSE CmdResult(r.s, "Failed to create note", DataNone)

\* formatted_notes: note[0], note[1], note[2] of a row (id, entry_id,
\* content, created_at) under the keys ID, Content, Created.
ProjEB_list_notes(s, args) ==
    LET r == Database_get_notes(s, args.entry_id) IN
    CmdResult(r.s, "Notes:",
              DataList([i \in 1..Len(r.ret) |->
                          [ID |-> r.ret[i].id,
                           Content |-> r.ret[i].entry_id,
                           Created |-> r.ret[i].content]]))

\* int(tid.strip()) of one token of --tags: a token is [int, val].
ParsesAsInt(tok) == tok.int

ProjEB_merge_tags(s, args) ==
    IF \E i \in 1..Len(args.tags) : ~ParsesAsInt(args.tags[i])
    THEN CmdResult(s, "Failed to merge tags: Invalid tag IDs", DataNone)
    ELSE LET tag_ids == [i \in 1..Len(args.tags) |-> args.tags[i].val]
             r == Database_merge_tags(s, tag_ids, args.new_tag)
         IN  IF Truthy(r.ret)
             THEN CmdResult(r.s, "Tags merged successfully", DataNone)
             ELSE CmdResult(r.s, "Failed to merge tags", DataNone)

\* formatted_results: ID, NotebookID, Title, Content of each row.
ProjEB_search(s, args) ==
    LET r == Database_search(s, args.query, args.tag) IN
    CmdResult(r.s, "Search results:",
              DataList([i \in 1..Len(r.ret) |->
                          [ID |-> r.ret[i].id,
                           NotebookID |-> r.ret[i].notebook_id,
                           Title |-> r.ret[i].title,
                           Content |-> r.ret[i].content]]))

(***************************************************************************)
(* Construction: ProjEB() reads configuration.ini, opens the database and  *)
(* makes the directories.  A configuration is the set of its sections and  *)
(* the set of its <<section, option>> pairs; Unreadable is a file that     *)
(* configparser reads nothing from.                                        *)
(***************************************************************************)
required_sections == {"database", "attachments", "backup", "export"}

\* The sections whose 'dir' _ensure_directories reads.
dirs == {"attachments", "backup", "export"}

\* The option the code reads from a section.
RequiredOption(section) == IF section = "database" THEN "file" ELSE "dir"

Unreadable == [sections |-> {"unreadable"}, options |-> {}]

\* A configuration with every section and every option.
ValidConfig ==
    [sections |-> required_sections,
     options |-> {<<section, RequiredOption(section)>> :
                     section \in required_sections}]

\* The exception an operation ended with, NoName when it returned.
Raised(exception) == [raised |-> exception]

\* ProjEB._load_config: the exception it raises, NoName when it returns
\* the configuration.
load_config(config) ==
    IF config = Unreadable
    THEN "RuntimeError"
    ELSE IF \E section \in required_sections : section \notin config.sections
    THEN "RuntimeError"
    ELSE IF <<"database", "file">> \notin config.options
    THEN "RuntimeError"
    ELSE NoName

\* Database(db_file): sqlite3.connect creates a file that is absent, and
\* CREATE TABLE IF NOT EXISTS makes the tables a file lacks; the tables of a
\* file that has them stay as they are.
Database_init(s, f) ==
    IF f.database = "tables"
    THEN [s |-> Commit(s.db), fs |-> f]
    ELSE [s |-> Commit(create_database),
          fs |-> [f EXCEPT !.database = "tables"]]

\* ProjEB._ensure_directories: the list of the three 'dir' values is built
\* before any mkdir; a section without 'dir' raises KeyError.
ensure_directories(f) ==
    IF \E section \in dirs : <<section, "dir">> \notin f.config.options
    THEN [fs |-> f, raised |-> "KeyError"]
    ELSE [fs |-> [f EXCEPT !.dirs = @ \cup dirs], raised |-> NoName]

\* ProjEB.__init__.  _load_config runs outside the try.  peb.py does not
\* import sqlite3, so when the try raises, evaluating the clause
\* `except (sqlite3.Error, OSError, RuntimeError)` raises NameError in place
\* of what was raised.
ProjEB_init(s, f) ==
    LET e == load_config(f.config) IN
    IF e # NoName
    THEN [s |-> s, fs |-> f, ret |-> Raised(e)]
    ELSE LET d == Database_init(s, f)
             m == ensure_directories(d.fs) IN
         IF m.raised # NoName
         THEN [s |-> d.s, fs |-> m.fs, ret |-> Raised("NameError")]
         ELSE [s |-> d.s, fs |-> m.fs, ret |-> Raised(NoName)]

(***************************************************************************)
(* Files.  A command that touches files yields [s, fs, ret].               *)
(***************************************************************************)
FileResult(s, f, message, data) ==
    [s |-> s, fs |-> f, ret |-> Output(message, data)]

\* A file of a directory: one a user put there, or one named by a
\* stored_name.
UserFile(name) == [kind |-> "user", name |-> name]

\* A zip archive as backup writes it: the database file under its name and
\* each file of the attachments directory under attachments/<relative path>.
ZipOf(dbfile, files) ==
    [exists |-> TRUE, zip |-> TRUE, has_db |-> TRUE, db |-> dbfile,
     attachments |-> files]

\* The paths --backup-file may name: the n-th archive of the backup
\* directory, no file, a text file, and a zip archive without the database.
BackupPath(n) == [kind |-> "backup", n |-> n]
NonexistentZip == [kind |-> "nonexistent", n |-> 0]
InvalidZip == [kind |-> "invalid", n |-> 0]
ZipWithoutDatabase == [kind |-> "nodb", n |-> 0]

\* What is at a path.
ReadFile(f, path) ==
    IF path.kind = "backup" /\ path.n <= Len(f.backups)
    THEN f.backups[path.n]
    ELSE IF path.kind = "invalid"
    THEN [exists |-> TRUE, zip |-> FALSE, has_db |-> FALSE,
          db |-> create_database, attachments |-> {}]
    ELSE IF path.kind = "nodb"
    THEN [exists |-> TRUE, zip |-> TRUE, has_db |-> FALSE,
          db |-> create_database, attachments |-> {UserFile("test.txt")}]
    ELSE [exists |-> FALSE, zip |-> FALSE, has_db |-> FALSE,
          db |-> create_database, attachments |-> {}]

\* A variant without the probe: the archive is written whatever the
\* directory allows; C19 tells it from backup.
ProjEB_backup_NoProbe(s, f) ==
    FileResult(s,
        [f EXCEPT !.backups = Append(@, ZipOf(s.db, f.attachments))],
        "Backup created", DataNone)

\* What zipfile.ZipFile(backup_path, 'w') leaves when nothing is written
\* into it: an archive without members.
EmptyZip ==
    [exists |-> TRUE, zip |-> TRUE, has_db |-> FALSE,
     db |-> create_database, attachments |-> {}]

\* ProjEB.backup.  The backup directory exists since __init__; the probe
\* .write_test fails where the directory cannot be written.  The archive is
\* opened for writing before db_path.exists() is tested, so the return for
\* a missing database file closes an archive without members.  What a
\* connection has not committed is not in the file; a file without tables
\* is archived as the database it becomes when restore opens it.  Each
\* archive gets a name of its own: the clock has moved on since the last
\* backup.
ProjEB_backup(s, f) ==
    IF ~f.backup_writable
    THEN FileResult(s, f, "Backup failed: Directory is not writable", DataNone)
    ELSE IF f.database = "absent"
    THEN FileResult(s, [f EXCEPT !.backups = Append(@, EmptyZip)],
                    "Backup failed: Database file not found", DataNone)
    ELSE FileResult(s,
            [f EXCEPT !.backups = Append(@, ZipOf(s.db, f.attachments))],
            "Backup created", DataNone)

\* self.db.close(): the connection is closed, its transaction rolled back.
Database_close(s) == Commit(s.db)

\* backup_zip.extract(file_info.filename, attachments_dir.parent) for the
\* members attachments/...: they land in <parent>/attachments, which is the
\* configured directory when that is its name.
ExtractAttachments(f, zip) ==
    IF f.attachments_dir = "attachments"
    THEN [f EXCEPT !.attachments = @ \cup zip.attachments]
    ELSE [f EXCEPT !.beside = @ \cup zip.attachments]

\* A variant that extracts the attachments and reopens the database file it
\* finds; C14 tells it from restore.
ProjEB_restore_KeepDatabase(s, f, args) ==
    LET zip == ReadFile(f, args.backup_file) IN
    IF ~zip.exists
    THEN FileResult(s, f, "Backup file not found", DataNone)
    ELSE IF ~zip.zip
    THEN FileResult(s, f, "Restore failed", DataNone)
    ELSE IF ~zip.has_db
    THEN FileResult(Database_close(s), f, "Restore failed", DataNone)
    ELSE FileResult(Database_close(s), ExtractAttachments(f, zip),
                    "Restore completed successfully", DataNone)

\* A variant that extracts the attachments before the database; C16 tells
\* it from restore.
ProjEB_restore_AttachmentsFirst(s, f, args) ==
    LET zip == ReadFile(f, args.backup_file) IN
    IF ~zip.exists
    THEN FileResult(s, f, "Backup file not found", DataNone)
    ELSE IF ~zip.zip
    THEN FileResult(s, f, "Restore failed", DataNone)
    ELSE IF ~zip.has_db
    THEN FileResult(Database_close(s), ExtractAttachments(f, zip),
                    "Restore failed", DataNone)
    ELSE FileResult(Commit(zip.db), ExtractAttachments(f, zip),
                    "Restore completed successfully", DataNone)

\* ProjEB.restore
ProjEB_restore(s, f, args) ==
    LET zip == ReadFile(f, args.backup_file) IN
    IF ~zip.exists
    THEN FileResult(s, f, "Backup file not found", DataNone)
    ELSE IF ~zip.zip
    THEN FileResult(s, f, "Restore failed", DataNone)
    ELSE IF ~zip.has_db
    THEN FileResult(Database_close(s), f, "Restore failed", DataNone)
    ELSE FileResult(Commit(zip.db),
                    [ExtractAttachments(f, zip) EXCEPT !.database = "tables"],
                    "Restore completed successfully", DataNone)

\* ProjEB.create_notebook whatever the state of the database file: connect
\* creates a file that is absent, without tables, and the INSERT into a file
\* without tables ends in `except sqlite3.Error`.
ProjEB_create_notebook_file(s, f, args) ==
    IF f.database = "tables"
    THEN LET r == ProjEB_create_notebook(s, args) IN
         [s |-> r.s, fs |-> f, ret |-> r.ret]
    ELSE FileResult(s, [f EXCEPT !.database = "empty"],
                    "Failed to create notebook", DataNone)

(***************************************************************************)
(* Export and import.  A JSON document is a record of three lists of       *)
(* rows; a row is a list, its items in the order of the SELECT.            *)
(***************************************************************************)
\* json.dump(..., default=str) of the rows of get_notebooks: id, name,
\* description, created_at, status; the time is written as a text.
NotebookRow(r) == <<r.id, r.name, r.description, "created_at", r.status>>

\* ... of get_entries: id, notebook_id, title, content, created_at.
EntryRow(r) == <<r.id, r.notebook_id, r.title, r.content, "created_at">>

\* ... of get_tags: id, name, description.
TagRow(r) == <<r.id, r.name, r.description>>

JsonDocument(notebooks, entries, tags) ==
    [exists |-> TRUE, json |-> TRUE,
     notebooks |-> notebooks, entries |-> entries, tags |-> tags]

\* ProjEB.export_data: the probe .write_test, then the three listings and
\* the document; 'notes' is always the empty list.
ProjEB_export(s, f) ==
    IF ~f.export_writable
    THEN FileResult(s, f, "Export failed: Directory is not writable", DataNone)
    ELSE LET n == Database_get_notebooks(s)
             e == Database_get_entries(n.s)
             g == Database_get_tags(e.s)
             doc == JsonDocument(
                        [i \in 1..Len(n.ret) |-> NotebookRow(n.ret[i])],
                        [i \in 1..Len(e.ret) |-> EntryRow(e.ret[i])],
                        [i \in 1..Len(g.ret) |-> TagRow(g.ret[i])])
         IN  FileResult(g.s, [f EXCEPT !.exports = Append(@, doc)],
                        "Data exported", DataNone)

\* The paths --file may name: the n-th document of the export directory,
\* no file, a text that is not JSON, the document {}, and documents whose
\* second notebook, entry or tag is a list of one item.
ExportPath(n) == [kind |-> "export", n |-> n]
MissingJson == [kind |-> "nonexistent", n |-> 0]
InvalidJson == [kind |-> "invalid", n |-> 0]
EmptyJson == [kind |-> "empty", n |-> 0]
MalformedNotebooks == [kind |-> "notebooks", n |-> 0]
MalformedEntries == [kind |-> "entries", n |-> 0]
MalformedTags == [kind |-> "tags", n |-> 0]

\* What json.load finds at a path.
ReadJson(f, path) ==
    IF path.kind = "export" /\ path.n <= Len(f.exports)
    THEN f.exports[path.n]
    ELSE IF path.kind = "invalid"
    THEN [exists |-> TRUE, json |-> FALSE,
          notebooks |-> <<>>, entries |-> <<>>, tags |-> <<>>]
    ELSE IF path.kind = "empty"
    THEN JsonDocument(<<>>, <<>>, <<>>)
    ELSE IF path.kind = "notebooks"
    THEN JsonDocument(<< <<7, "n1", "d1", "created_at", "active">>, <<8>> >>,
                      <<>>, <<>>)
    ELSE IF path.kind = "entries"
    THEN JsonDocument(<< <<7, "n1", "d1", "created_at", "active">> >>,
                      << <<5, 7, <<"a">>, <<"a">>, "created_at">>, <<6>> >>,
                      <<>>)
    ELSE IF path.kind = "tags"
    THEN JsonDocument(<<>>, <<>>, << <<4, "x", "">>, <<5>> >>)
    ELSE [exists |-> FALSE, json |-> FALSE,
          notebooks |-> <<>>, entries |-> <<>>, tags |-> <<>>]

\* A dict from old ids to new ids as a set of pairs: m[k] = v and m.get(k).
MapPut(m, k, v) == {p \in m : p[1] # k} \cup {<<k, v>>}

MapGet(m, k) ==
    IF \E p \in m : p[1] = k THEN (CHOOSE p \in m : p[1] = k)[2] ELSE NULL

\* How far an import loop got: raised is TRUE when a row raised.
Imported(raised, s, map) == [raised |-> raised, s |-> s, map |-> map]

RECURSIVE ImportNotebooks(_, _, _)
\* for notebook in import_data.get('notebooks', []):
\*     notebook_map[notebook[0]] = create_notebook(notebook[1], notebook[2])
ImportNotebooks(s, rows, map) ==
    IF rows = <<>> THEN Imported(FALSE, s, map)
    ELSE IF Len(Head(rows)) < 3 THEN Imported(TRUE, s, map)
    ELSE LET row == Head(rows)
             r == Database_create_notebook(s, row[2], row[3])
         IN  ImportNotebooks(r.s, Tail(rows), MapPut(map, row[1], r.ret))

RECURSIVE ImportEntries_SameNotebookId(_, _, _, _)
\* A variant that keeps the notebook id of the file; C24 tells it from the
\* lookup in notebook_map.
ImportEntries_SameNotebookId(s, rows, notebook_map, map) ==
    IF rows = <<>> THEN Imported(FALSE, s, map)
    ELSE IF Len(Head(rows)) < 2 THEN Imported(TRUE, s, map)
    ELSE LET row == Head(rows)
             new_notebook_id == row[2]
         IN  IF ~Truthy(new_notebook_id)
             THEN ImportEntries_SameNotebookId(s, Tail(rows), notebook_map,
                                               map)
             ELSE IF Len(row) < 4 THEN Imported(TRUE, s, map)
             ELSE LET r == Database_create_entry(s, new_notebook_id, row[3],
                                                 row[4], <<>>)
                  IN  ImportEntries_SameNotebookId(r.s, Tail(rows),
                          notebook_map, MapPut(map, row[1], r.ret))

RECURSIVE ImportEntries(_, _, _, _)
\* for entry in import_data.get('entries', []): create_entry under the new
\* id of its notebook, when the notebook has one.
ImportEntries(s, rows, notebook_map, map) ==
    IF rows = <<>> THEN Imported(FALSE, s, map)
    ELSE IF Len(Head(rows)) < 2 THEN Imported(TRUE, s, map)
    ELSE LET row == Head(rows)
             new_notebook_id == MapGet(notebook_map, row[2])
         IN  IF ~Truthy(new_notebook_id)
             THEN ImportEntries(s, Tail(rows), notebook_map, map)
             ELSE IF Len(row) < 4 THEN Imported(TRUE, s, map)
             ELSE LET r == Database_create_entry(s, new_notebook_id, row[3],
                                                 row[4], <<>>)
                  IN  ImportEntries(r.s, Tail(rows), notebook_map,
                                    MapPut(map, row[1], r.ret))

RECURSIVE ImportTags(_, _, _)
\* for tag in import_data.get('tags', []):
\*     tag_map[tag[0]] = create_tag(tag[1], tag[2])
ImportTags(s, rows, map) ==
    IF rows = <<>> THEN Imported(FALSE, s, map)
    ELSE IF Len(Head(rows)) < 3 THEN Imported(TRUE, s, map)
    ELSE LET row == Head(rows)
             r == Database_create_tag(s, row[2], row[3])
         IN  ImportTags(r.s, Tail(rows), MapPut(map, row[1], r.ret))

RECURSIVE LinkImportedEntry(_, _, _, _)
\* for tag in entry_tags: add_tag_to_entry when the tag has a new id.
LinkImportedEntry(s, new_entry_id, entry_tags, tag_map) ==
    IF entry_tags = <<>> THEN s
    ELSE LET new_tag_id == MapGet(tag_map, Head(entry_tags).id) IN
         LinkImportedEntry(
            IF Truthy(new_tag_id)
            THEN Database_add_tag_to_entry(s, new_entry_id, new_tag_id).s
            ELSE s,
            new_entry_id, Tail(entry_tags), tag_map)

RECURSIVE ImportEntryTags_EveryTag(_, _, _, _)
\* A variant that links each imported entry to the tags of the file; C25
\* tells it from the lookup in the database.
ImportEntryTags_EveryTag(s, rows, entry_map, tag_map) ==
    IF rows = <<>> THEN s
    ELSE LET new_entry_id == MapGet(entry_map, Head(rows)[1]) IN
         IF ~Truthy(new_entry_id)
         THEN ImportEntryTags_EveryTag(s, Tail(rows), entry_map, tag_map)
         ELSE LET r == Database_get_tags(s) IN
              ImportEntryTags_EveryTag(
                 LinkImportedEntry(r.s, new_entry_id, r.ret, tag_map),
                 Tail(rows), entry_map, tag_map)

RECURSIVE ImportEntryTags(_, _, _, _)
\* for entry in import_data.get('entries', []): the tags get_entry_tags
\* finds in this database for the old id of the entry.
ImportEntryTags(s, rows, entry_map, tag_map) ==
    IF rows = <<>> THEN s
    ELSE LET new_entry_id == MapGet(entry_map, Head(rows)[1]) IN
         IF ~Truthy(new_entry_id)
         THEN ImportEntryTags(s, Tail(rows), entry_map, tag_map)
         ELSE LET r == Database_get_entry_tags(s, Head(rows)[1]) IN
              ImportEntryTags(
                 LinkImportedEntry(r.s, new_entry_id, r.ret, tag_map),
                 Tail(rows), entry_map, tag_map)

\* ProjEB.import_data: every create commits as it goes; whatever raises is
\* caught at the end and reported.
ProjEB_import(s, f, args) ==
    LET doc == ReadJson(f, args.file) IN
    IF ~doc.exists \/ ~doc.json
    THEN FileResult(s, f, "Import failed", DataNone)
    ELSE LET n == ImportNotebooks(s, doc.notebooks, {}) IN
         IF n.raised THEN FileResult(n.s, f, "Import failed", DataNone)
         ELSE LET e == ImportEntries(n.s, doc.entries, n.map, {}) IN
         IF e.raised THEN FileResult(e.s, f, "Import failed", DataNone)
         ELSE LET g == ImportTags(e.s, doc.tags, {}) IN
         IF g.raised THEN FileResult(g.s, f, "Import failed", DataNone)
         ELSE FileResult(ImportEntryTags(g.s, doc.entries, e.map, g.map), f,
                         "Data imported successfully", DataNone)

(***************************************************************************)
(* Connections.                                                            *)
(***************************************************************************)
\* No connection is open: before the first instance, and after the process
\* has exited.
NoHandles == [opened |-> 0, held |-> 0]

\* After ProjEB(): the connection of __init__'s self.db.connect() is open.
Constructed == [opened |-> 1, held |-> 0]

\* A call begins: what is open was opened before it.
BeginCall(h) == [opened |-> 0, held |-> h.opened + h.held]

\* Database.connect: self.conn = sqlite3.connect(self.db_file).  The
\* connection self.conn named until now has no other name and is closed;
\* the new one stays open in self.conn when the method returns, for no
\* method of Database closes it.
sqlite3_connect(h) ==
    IF h.opened > 0
    THEN h
    ELSE [opened |-> 1, held |-> IF h.held > 0 THEN h.held - 1 ELSE 0]

\* self.conn.close(), of Database.close.
Connection_close(h) ==
    IF h.opened > 0
    THEN [h EXCEPT !.opened = @ - 1]
    ELSE [h EXCEPT !.held = IF @ > 0 THEN @ - 1 ELSE 0]

\* Whether the call runs a method of Database: merge-tags parses its ids
\* first, create-entry needs --notebook or --notebook-id to look one up;
\* every other command and every method of Database connects.
Connects(cmd, args) ==
    CASE cmd = "merge-tags" ->
            \A i \in 1..Len(args.tags) : ParsesAsInt(args.tags[i])
      [] cmd = "create-entry" ->
            args.notebook # NoName \/ Truthy(args.notebook_id)
      [] OTHER -> TRUE

\* The connections after a command that touches files: create-notebook
\* connects; backup opens none;
\* export connects once the directory is found writable; import connects
\* when it has a notebook or a tag to create; restore closes the connection
\* once the archive is open and Database(db_path) connects anew when the
\* database has been extracted.
FileConnections(h, cmd, args, f) ==
    CASE cmd = "backup" -> BeginCall(h)
      [] cmd = "export" ->
            IF f.export_writable THEN sqlite3_connect(BeginCall(h))
            ELSE BeginCall(h)
      [] cmd = "import" ->
            LET doc == ReadJson(f, args.file) IN
            IF doc.exists /\ doc.json
               /\ (doc.notebooks # <<>> \/ doc.tags # <<>>)
            THEN sqlite3_connect(BeginCall(h))
            ELSE BeginCall(h)
      [] cmd = "restore" ->
            LET zip == ReadFile(f, args.backup_file) IN
            IF ~zip.exists \/ ~zip.zip THEN BeginCall(h)
            ELSE IF ~zip.has_db THEN Connection_close(BeginCall(h))
            ELSE sqlite3_connect(Connection_close(BeginCall(h)))
      [] OTHER -> sqlite3_connect(BeginCall(h))

(***************************************************************************)
(* main(): one command of the command line, with or without --api.         *)
(***************************************************************************)
\* What _output returns outside API mode, after printing: nothing.
Nothing == [message |-> NoName, data |-> DataNone]

\* A command that touches no file, with the files as they are.
WithFiles(r, f) == [s |-> r.s, fs |-> f, ret |-> r.ret]

\* if args.command == ...: result = peb.<command>(args)
Execute(command, args, s, f) ==
    CASE command = "create-notebook" ->
            WithFiles(ProjEB_create_notebook(s, args), f)
      [] command = "list-notebooks" -> WithFiles(ProjEB_list_notebooks(s), f)
      [] command = "create-entry" -> WithFiles(ProjEB_create_entry(s, args), f)
      [] command = "list-tags" -> WithFiles(ProjEB_list_tags(s), f)
      [] command = "merge-tags" -> WithFiles(ProjEB_merge_tags(s, args), f)
      [] command = "create-note" -> WithFiles(ProjEB_create_note(s, args), f)
      [] command = "list-notes" -> WithFiles(ProjEB_list_notes(s, args), f)
      [] command = "search" -> WithFiles(ProjEB_search(s, args), f)
      [] command = "export" -> ProjEB_export(s, f)
      [] command = "import" -> ProjEB_import(s, f, args)
      [] command = "backup" -> ProjEB_backup(s, f)
      [] command = "restore" -> ProjEB_restore(s, f, args)

\* A variant that exits by the truth value of the data; C20 tells it from
\* the test `is not None`.
sys_exit_Truthy(api, result) ==
    IF ~api THEN 0
    ELSE IF result.data = DataNone \/ result.data = DataList(<<>>) THEN 1
    ELSE 0

\* if args.api: sys.exit(0 if result.get('data') is not None else 1);
\* without --api main returns and the status is 0.
sys_exit(api, result) ==
    IF ~api THEN 0
    ELSE IF result.data # DataNone THEN 0
    ELSE 1

(***************************************************************************)
(* Workloads: the arguments the callers draw from.                         *)
(***************************************************************************)
MissingFile == PathOf("home", "nonexistent", ".txt")
DataFile == PathOf("home", "data", ".txt")

Token(n) == [int |-> TRUE, val |-> n]
BadToken == [int |-> FALSE, val |-> 0]

\* The arguments of create-entry.
EntryArgs(notebook, notebook_id, title, content, attachments, tags) ==
    [notebook |-> notebook, notebook_id |-> notebook_id, title |-> title,
     content |-> content, attachments |-> attachments, tags |-> tags]

\* The arguments of create-note.
NoteArgs(entry_id, content, attachments, tags) ==
    [entry_id |-> entry_id, content |-> content, attachments |-> attachments,
     tags |-> tags]

\* The command line: notebooks, entries with attachments and tags, a note,
\* a merge and a search.
CliWorkload ==
    [ create_notebook |->
        {[name |-> "n1", description |-> "d1"],
         [name |-> "n1", description |-> "d2"],
         [name |-> "n2", description |-> "d1"]},
      create_entry |->
        {EntryArgs(NoName, 1, <<"a">>, <<"a">>, <<>>, <<>>),
         EntryArgs("n1", NULL, <<"b">>, NullStr, <<DataFile>>, <<"x">>),
         EntryArgs("n2", NULL, <<"a">>, <<"a">>, <<>>, <<>>),
         EntryArgs(NoName, 2, <<"b">>, <<"a">>, <<DataFile, MissingFile>>, <<"x">>),
         EntryArgs("n1", NULL, <<"c">>, <<"a">>, <<MissingFile, DataFile>>, <<>>),
         EntryArgs("n3", NULL, <<"a">>, <<"a">>, <<MissingFile>>, <<>>),
         EntryArgs(NoName, NULL, <<"a">>, <<"a">>, <<>>, <<>>),
         EntryArgs(NoName, MaxNotebooks + 1, <<"a">>, <<"a">>, <<DataFile>>, <<"x">>)},
      create_note |-> {NoteArgs(1, <<"a">>, <<>>, <<"x">>)},
      merge_tags |-> {[tags |-> <<Token(1)>>, new_tag |-> "y"]},
      search |-> {[query |-> <<"a">>, tag |-> NULL]} ]

\* Archiving notebooks and creating entries in them.
MainWorkload ==
    [ create_notebook |->
        {[name |-> "n1", description |-> "d1"],
         [name |-> "n2", description |-> "d1"]},
      update_notebook_status |->
        {[notebook_id |-> 1, status |-> "archived"],
         [notebook_id |-> 2, status |-> "archived"],
         [notebook_id |-> 1, status |-> "active"]},
      create_entry |->
        {EntryArgs(NoName, 1, <<"a">>, <<"a">>, <<>>, <<>>),
         EntryArgs("n1", NULL, <<"b">>, NullStr, <<DataFile>>, <<"x">>),
         EntryArgs("n2", NULL, <<"a">>, <<>>, <<>>, <<>>)},
      create_note |-> {NoteArgs(1, <<"a">>, <<>>, <<>>)},
      merge_tags |-> {[tags |-> <<Token(1)>>, new_tag |-> "y"]},
      search |-> {[query |-> <<"a">>, tag |-> NULL]} ]

\* Tags on entries and notes, and their merges.  Entry 2 may be linked to
\* tag id 3 before a tag of that id exists: no foreign key stops it.
TagsWorkload ==
    [ create_notebook |-> {[name |-> "n1", description |-> "d1"]},
      create_entry |->
        {EntryArgs(NoName, 1, <<"a">>, <<>>, <<>>, <<"A", "B">>),
         EntryArgs(NoName, 1, <<"b">>, <<>>, <<>>, <<>>)},
      create_note |-> {NoteArgs(1, <<"a">>, <<>>, <<"A">>)},
      create_tag |-> {[name |-> "A"]},
      add_tag_to_entry |->
        {[entry_id |-> 2, tag_id |-> 2],
         [entry_id |-> 2, tag_id |-> 3]},
      add_tag_to_note |-> {[note_id |-> 1, tag_id |-> 2]},
      merge_tags |->
        {[tags |-> <<Token(1), Token(2)>>, new_tag |-> "M"],
         [tags |-> <<Token(1)>>, new_tag |-> "M"],
         [tags |-> <<Token(1), Token(2)>>, new_tag |-> "A"],
         [tags |-> <<Token(1), BadToken>>, new_tag |-> "M"]},
      search |-> {[query |-> <<"a">>, tag |-> 1]} ]

\* Entries whose texts differ in case and hold LIKE's wildcards, and the
\* queries over them.
SearchWorkload ==
    [ create_notebook |-> {[name |-> "n1", description |-> "d1"]},
      create_entry |->
        {EntryArgs(NoName, 1, <<"A", "b">>, NullStr, <<>>, <<"x">>),
         EntryArgs(NoName, 1, <<"c">>, <<"b", "a">>, <<>>, <<"y">>),
         EntryArgs(NoName, 1, <<"_">>, <<>>, <<>>, <<>>)},
      create_note |-> {NoteArgs(1, NullStr, <<>>, <<>>)},
      merge_tags |-> {[tags |-> <<BadToken>>, new_tag |-> "M"]},
      search |->
        {[query |-> q, tag |-> g] :
            q \in {<<>>, <<"a">>, <<"b">>, <<"a", "b">>, <<"_">>, <<"%">>,
                   <<"z">>},
            g \in {NULL, 1, 2, MaxTagId}} ]

\* One title in two notebooks and twice in one, with and without tags and
\* attachments; notes of entry 1 and of an entry id that is never issued.
EntriesWorkload ==
    [ create_notebook |->
        {[name |-> "n1", description |-> "d1"],
         [name |-> "n2", description |-> "d1"]},
      create_entry |->
        {EntryArgs(NoName, 1, <<"a">>, <<"a">>, <<>>, <<>>),
         EntryArgs("n1", NULL, <<"a">>, <<"b">>, <<DataFile>>, <<"x">>),
         EntryArgs("n2", NULL, <<"a">>, <<"a">>, <<>>, <<"y">>)},
      create_note |->
        {NoteArgs(1, <<"a">>, <<DataFile>>, <<"x">>),
         NoteArgs(MaxEntries + 1, <<"a">>, <<>>, <<>>)},
      merge_tags |-> {[tags |-> <<Token(1)>>, new_tag |-> "M"]},
      search |-> {[query |-> <<"a">>, tag |-> NULL]} ]

\* A notebook that is archived, an entry with a tag, archives restored in
\* any order, and a file of the attachments directory.
BackupWorkload ==
    [ create_notebook |-> {[name |-> "n1", description |-> "d1"]},
      update_notebook_status |->
        {[notebook_id |-> 1, status |-> "archived"]},
      create_entry |->
        {EntryArgs(NoName, 1, <<"a">>, <<"a">>, <<>>, <<"x">>)},
      restore |->
        {[backup_file |-> p] :
            p \in {BackupPath(n) : n \in 1..MaxBackups} \cup
                  {NonexistentZip, InvalidZip, ZipWithoutDatabase}},
      files |-> {UserFile("test.txt")},
      attachments_dir |-> {"attachments", "files"} ]

\* A notebook that is archived and an entry with a tag, exported and
\* imported, and imports of files that are not exports.
ExportWorkload ==
    [ create_notebook |-> {[name |-> "n1", description |-> "d1"]},
      update_notebook_status |->
        {[notebook_id |-> 1, status |-> "archived"]},
      create_entry |->
        {EntryArgs(NoName, 1, <<"a">>, <<"a">>, <<>>, <<"x">>)},
      import |->
        {[file |-> p] :
            p \in {ExportPath(n) : n \in 1..MaxExports} \cup
                  {MissingJson, InvalidJson, EmptyJson, MalformedNotebooks,
                   MalformedEntries, MalformedTags}} ]

\* Tags on an entry and on a note, and their deletion: ids of tags and ids
\* of no tag.
DeleteWorkload ==
    [ create_notebook |-> {[name |-> "n1", description |-> "d1"]},
      create_entry |->
        {EntryArgs(NoName, 1, <<"a">>, <<>>, <<>>, <<"A", "B">>),
         EntryArgs(NoName, 1, <<"b">>, <<>>, <<>>, <<"B">>)},
      create_note |-> {NoteArgs(1, <<"a">>, <<>>, <<"C">>)},
      add_tag_to_note |->
        {[note_id |-> 1, tag_id |-> 1],
         [note_id |-> 1, tag_id |-> 2]},
      delete_tag |-> {[tag_id |-> id] : id \in 1..MaxTagId} ]

\* A notebook, a file of the attachments directory, and the archives to
\* restore, around the removal of the database file.
MissingWorkload ==
    [ create_notebook |-> {[name |-> "n1", description |-> "d1"]},
      restore |-> {[backup_file |-> BackupPath(n)] : n \in 1..MaxBackups},
      files |-> {UserFile("test.txt")} ]

\* Two notebooks with a tagged entry each, exported and imported again.
RoundTripWorkload ==
    [ create_notebook |->
        {[name |-> "n1", description |-> "d1"],
         [name |-> "n2", description |-> "d1"]},
      create_entry |->
        {EntryArgs("n1", NULL, <<"a">>, <<"a">>, <<>>, <<"x">>),
         EntryArgs("n2", NULL, <<"b">>, NullStr, <<>>, <<"y">>)},
      import |-> {[file |-> ExportPath(n)] : n \in 1..MaxExports} ]

\* The configuration files: an unreadable one, and every choice of sections
\* each with or without its option.
Configs ==
    {Unreadable} \cup
    {c \in {[sections |-> S, options |-> O] :
                S \in SUBSET required_sections,
                O \in SUBSET {<<section, RequiredOption(section)>> :
                                section \in required_sections}} :
        \A o \in c.options : o[1] \in c.sections}

\* The command lines main() is run with: each command, with arguments that
\* make it succeed and arguments that make it fail.
CommandLines ==
    {[command |-> "create-notebook", args |-> a] :
        a \in {[name |-> "n1", description |-> "d1"]}} \cup
    {[command |-> "create-entry", args |-> a] :
        a \in {EntryArgs(NoName, 1, <<"a">>, <<"a">>, <<>>, <<>>)}} \cup
    {[command |-> "create-note", args |-> a] :
        a \in {NoteArgs(1, <<"a">>, <<>>, <<>>)}} \cup
    {[command |-> "list-notes", args |-> a] : a \in {[entry_id |-> 1]}} \cup
    {[command |-> "merge-tags", args |-> a] :
        a \in {[tags |-> <<BadToken>>, new_tag |-> "x"]}} \cup
    {[command |-> "search", args |-> a] :
        a \in {[query |-> <<"a">>, tag |-> NULL]}} \cup
    {[command |-> "import", args |-> a] : a \in {[file |-> MissingJson]}} \cup
    {[command |-> "restore", args |-> a] :
        a \in {[backup_file |-> BackupPath(1)],
               [backup_file |-> NonexistentZip]}} \cup
    {[command |-> c, args |-> <<>>] :
        c \in {"list-notebooks", "list-tags", "export", "backup"}}

(***************************************************************************)
(* The state after construction, and one action per call.                  *)
(***************************************************************************)
\* The directories of configuration.ini after _ensure_directories, the
\* attachments directory being the one named `dir`.
Directories(dir) ==
    [config |-> ValidConfig,
     database |-> "tables",
     dirs |-> dirs,
     attachments_dir |-> dir,
     attachments |-> {},
     beside |-> {},
     backups |-> <<>>,
     exports |-> <<>>,
     backup_writable |-> TRUE,
     export_writable |-> TRUE]

\* The counters a run of the model may reach.
WithinBounds(d) ==
    /\ d.seq.notebooks <= MaxNotebooks
    /\ d.seq.entries <= MaxEntries
    /\ d.seq.notes <= MaxNotes
    /\ d.seq.tags <= MaxTagId

\* ProjEB.__init__: Database(file) creates the tables of an absent file.
Init ==
    /\ db = create_database
    /\ conn = create_database
    /\ op = [cmd |-> "init"]
    /\ ret = [message |-> NoName, data |-> DataNone]
    /\ fs = Directories("attachments")
    /\ exit = NULL
    /\ handles = Constructed

\* The call `cmd` with `args` ended in r = [s, ret].
Finish(cmd, args, r) ==
    /\ db' = r.s.db
    /\ conn' = r.s.conn
    /\ op' = [cmd |-> cmd, args |-> args]
    /\ ret' = r.ret
    /\ fs' = fs
    /\ exit' = NULL
    /\ handles' = IF Connects(cmd, args)
                  THEN sqlite3_connect(BeginCall(handles))
                  ELSE BeginCall(handles)

Current == Store(db, conn)

CreateNotebook(W) ==
    \E args \in W.create_notebook :
        LET r == ProjEB_create_notebook(Current, args) IN
        /\ WithinBounds(r.s.db)
        /\ Finish("create-notebook", args, r)

UpdateNotebookStatus(W) ==
    \E args \in W.update_notebook_status :
        LET r == Database_update_notebook_status(Current, args.notebook_id,
                                                 args.status) IN
        /\ WithinBounds(r.s.db)
        /\ Finish("update_notebook_status", args, r)

CreateEntry(W) ==
    \E args \in W.create_entry :
        LET r == ProjEB_create_entry(Current, args) IN
        /\ WithinBounds(r.s.db)
        /\ Finish("create-entry", args, r)

CreateNote(W) ==
    \E args \in W.create_note :
        LET r == ProjEB_create_note(Current, args) IN
        /\ WithinBounds(r.s.db)
        /\ Finish("create-note", args, r)

CreateTag(W) ==
    \E args \in W.create_tag :
        LET r == Database_create_tag(Current, args.name, "") IN
        /\ WithinBounds(r.s.db)
        /\ Finish("create_tag", args, r)

AddTagToEntry(W) ==
    \E args \in W.add_tag_to_entry :
        LET r == Database_add_tag_to_entry(Current, args.entry_id, args.tag_id) IN
        /\ WithinBounds(r.s.db)
        /\ Finish("add_tag_to_entry", args, r)

AddTagToNote(W) ==
    \E args \in W.add_tag_to_note :
        LET r == Database_add_tag_to_note(Current, args.note_id, args.tag_id) IN
        /\ WithinBounds(r.s.db)
        /\ Finish("add_tag_to_note", args, r)

DeleteTag(W) ==
    \E args \in W.delete_tag :
        LET r == Database_delete_tag(Current, args.tag_id) IN
        /\ WithinBounds(r.s.db)
        /\ Finish("delete_tag", args, r)

MergeTags(W) ==
    \E args \in W.merge_tags :
        LET r == ProjEB_merge_tags(Current, args) IN
        /\ WithinBounds(r.s.db)
        /\ Finish("merge-tags", args, r)

Search(W) ==
    \E args \in W.search :
        LET r == ProjEB_search(Current, args) IN
        /\ WithinBounds(r.s.db)
        /\ Finish("search", args, r)

\* A command that touches files ended in r = [s, fs, ret].
FinishFiles(cmd, args, r) ==
    /\ db' = r.s.db
    /\ conn' = r.s.conn
    /\ op' = [cmd |-> cmd, args |-> args]
    /\ ret' = r.ret
    /\ fs' = r.fs
    /\ exit' = NULL
    /\ handles' = FileConnections(handles, cmd, args, fs)

Backup ==
    LET r == ProjEB_backup(Current, fs) IN
    /\ Len(r.fs.backups) <= MaxBackups
    /\ FinishFiles("backup", <<>>, r)

Restore(W) ==
    \E args \in W.restore :
        LET r == ProjEB_restore(Current, fs, args) IN
        /\ WithinBounds(r.s.db)
        /\ FinishFiles("restore", args, r)

Export ==
    LET r == ProjEB_export(Current, fs) IN
    /\ Len(r.fs.exports) <= MaxExports
    /\ FinishFiles("export", <<>>, r)

Import(W) ==
    \E args \in W.import :
        LET r == ProjEB_import(Current, fs, args) IN
        /\ WithinBounds(r.s.db)
        /\ FinishFiles("import", args, r)

\* python peb.py [--api] <command> ...: a process that runs one command and
\* exits, which closes what it had open.  A run writes MaxWritten archives
\* and exports at most.
Main ==
    \E api \in BOOLEAN, line \in CommandLines :
        LET r == Execute(line.command, line.args, Current, fs) IN
        /\ WithinBounds(r.s.db)
        /\ Len(r.fs.backups) + Len(r.fs.exports) <= MaxWritten
        /\ db' = r.s.db
        /\ conn' = r.s.conn
        /\ fs' = r.fs
        /\ op' = [cmd |-> line.command, args |-> line.args, api |-> api]
        /\ ret' = IF api THEN r.ret ELSE Nothing
        /\ exit' = sys_exit(api, r.ret)
        /\ handles' = NoHandles

\* A user writes a file into the attachments directory.
PutFile(W) ==
    \E file \in W.files :
        /\ file \notin fs.attachments
        /\ fs' = [fs EXCEPT !.attachments = @ \cup {file}]
        /\ op' = [cmd |-> "write_text", args |-> file]
        /\ UNCHANGED <<db, conn, ret, exit, handles>>

\* A user deletes a file of the attachments directory.
DeleteFile(W) ==
    \E file \in W.files :
        /\ file \in fs.attachments
        /\ fs' = [fs EXCEPT !.attachments = @ \ {file}]
        /\ op' = [cmd |-> "unlink", args |-> file]
        /\ UNCHANGED <<db, conn, ret, exit, handles>>

\* The permissions of the backup or of the export directory are changed.
Chmod ==
    \E d \in {"backup", "export"}, mode \in BOOLEAN :
        /\ fs' = IF d = "backup" THEN [fs EXCEPT !.backup_writable = mode]
                 ELSE [fs EXCEPT !.export_writable = mode]
        /\ fs' # fs
        /\ op' = [cmd |-> "chmod", args |-> <<d, mode>>]
        /\ UNCHANGED <<db, conn, ret, exit, handles>>

\* The database is closed, its file removed, and a new instance creates it
\* anew.
RecreateDatabase ==
    /\ db # create_database
    /\ db' = create_database
    /\ conn' = create_database
    /\ op' = [cmd |-> "remove", args |-> <<>>]
    /\ handles' = sqlite3_connect(Connection_close(BeginCall(handles)))
    /\ UNCHANGED <<ret, fs, exit>>

\* create-notebook on an instance whose database file may be gone.
CreateNotebookFile(W) ==
    \E args \in W.create_notebook :
        LET r == ProjEB_create_notebook_file(Current, fs, args) IN
        /\ WithinBounds(r.s.db)
        /\ FinishFiles("create-notebook", args, r)

\* os.remove(db_file) while the instance lives.
RemoveDatabase ==
    /\ fs.database # "absent"
    /\ fs' = [fs EXCEPT !.database = "absent"]
    /\ db' = create_database
    /\ conn' = create_database
    /\ op' = [cmd |-> "remove", args |-> <<>>]
    /\ UNCHANGED <<ret, exit, handles>>

\* ProjEB(api_mode=True) with the configuration.ini that is there.
Construct ==
    LET r == ProjEB_init(Current, fs) IN
    /\ db' = r.s.db
    /\ conn' = r.s.conn
    /\ fs' = r.fs
    /\ op' = [cmd |-> "ProjEB", args |-> fs.config]
    /\ ret' = r.ret
    /\ exit' = NULL
    /\ handles' = IF r.ret.raised = NoName
                  THEN sqlite3_connect(BeginCall(handles))
                  ELSE BeginCall(handles)

\* A configuration file is written and PROJEB_CONFIG names it.
WriteConfig ==
    \E config \in Configs :
        /\ config # fs.config
        /\ fs' = [fs EXCEPT !.config = config]
        /\ op' = [cmd |-> "write_text", args |-> config]
        /\ UNCHANGED <<db, conn, ret, exit, handles>>

\* shutil.rmtree of the directory that holds the database file and the
\* configured directories.
Rmtree ==
    /\ fs.database # "absent" \/ fs.dirs # {}
    /\ fs' = [fs EXCEPT !.database = "absent", !.dirs = {}, !.attachments = {},
                        !.beside = {}, !.backups = <<>>, !.exports = <<>>]
    /\ db' = create_database
    /\ conn' = create_database
    /\ op' = [cmd |-> "rmtree", args |-> <<>>]
    /\ UNCHANGED <<ret, exit, handles>>

\* The commands of the command line.
CliStep(W) ==
    \/ CreateNotebook(W)
    \/ CreateEntry(W)
    \/ CreateNote(W)
    \/ MergeTags(W)
    \/ Search(W)

\* The methods of Database that callers use directly on tags.
TagStep(W) ==
    \/ CreateTag(W)
    \/ AddTagToEntry(W)
    \/ AddTagToNote(W)

\* The command line, and notebooks being archived.
Next == CliStep(MainWorkload) \/ UpdateNotebookStatus(MainWorkload)

Spec == Init /\ [][Next]_vars

\* The command line alone.
NextCli == CliStep(CliWorkload)

SpecCli == Init /\ [][NextCli]_vars

\* The command line and the tag methods of Database.
NextTags == CliStep(TagsWorkload) \/ TagStep(TagsWorkload)

SpecTags == Init /\ [][NextTags]_vars

\* The command line, searching.
NextSearch == CliStep(SearchWorkload)

SpecSearch == Init /\ [][NextSearch]_vars

\* The configuration names the attachments directory.
InitBackup ==
    /\ db = create_database
    /\ conn = create_database
    /\ op = [cmd |-> "init"]
    /\ ret = [message |-> NoName, data |-> DataNone]
    /\ \E dir \in BackupWorkload.attachments_dir : fs = Directories(dir)
    /\ exit = NULL
    /\ handles = Constructed

\* Backups and restores between changes of the database and of the
\* attachments directory.
NextBackup ==
    \/ CreateNotebook(BackupWorkload)
    \/ UpdateNotebookStatus(BackupWorkload)
    \/ CreateEntry(BackupWorkload)
    \/ Backup
    \/ Restore(BackupWorkload)
    \/ PutFile(BackupWorkload)
    \/ DeleteFile(BackupWorkload)
    \/ RecreateDatabase

SpecBackup == InitBackup /\ [][NextBackup]_vars

\* Exports and imports between changes of the database.
NextExport ==
    \/ CreateNotebook(ExportWorkload)
    \/ UpdateNotebookStatus(ExportWorkload)
    \/ CreateEntry(ExportWorkload)
    \/ Export
    \/ Import(ExportWorkload)
    \/ RecreateDatabase

SpecExport == Init /\ [][NextExport]_vars

\* Backups and exports into directories whose permissions change.
NextProbe ==
    \/ CreateNotebook(BackupWorkload)
    \/ CreateEntry(BackupWorkload)
    \/ Backup
    \/ Export
    \/ Chmod

SpecProbe == Init /\ [][NextProbe]_vars

\* Processes started from the command line, one after the other.
NextMain == Main

SpecMain == Init /\ [][NextMain]_vars

\* The command line, with titles repeated and notes of entries that may not
\* exist.
NextEntries == CliStep(EntriesWorkload)

SpecEntries == Init /\ [][NextEntries]_vars

\* Tags created with entries and notes, linked, and deleted.
NextDelete ==
    \/ CreateNotebook(DeleteWorkload)
    \/ CreateEntry(DeleteWorkload)
    \/ CreateNote(DeleteWorkload)
    \/ AddTagToNote(DeleteWorkload)
    \/ DeleteTag(DeleteWorkload)

SpecDelete == Init /\ [][NextDelete]_vars

\* Backups and restores of an instance whose database file is removed and
\* made anew.
NextMissing ==
    \/ CreateNotebookFile(MissingWorkload)
    \/ Backup
    \/ Restore(MissingWorkload)
    \/ PutFile(MissingWorkload)
    \/ RemoveDatabase
    \/ Construct

SpecMissing == Init /\ [][NextMissing]_vars

\* Exports of two notebooks and imports into databases old and new.
NextRoundTrip ==
    \/ CreateNotebook(RoundTripWorkload)
    \/ CreateEntry(RoundTripWorkload)
    \/ Export
    \/ Import(RoundTripWorkload)
    \/ RecreateDatabase

SpecRoundTrip == Init /\ [][NextRoundTrip]_vars

\* Before the first construction: a configuration file and nothing else.
InitConfig ==
    /\ db = create_database
    /\ conn = create_database
    /\ \E config \in Configs :
          /\ op = [cmd |-> "write_text", args |-> config]
          /\ fs = [Directories("attachments") EXCEPT
                      !.config = config, !.database = "absent", !.dirs = {}]
    /\ ret = Raised(NoName)
    /\ exit = NULL
    /\ handles = NoHandles

\* Instances constructed from the configurations that come and go.
NextConfig ==
    \/ Construct
    \/ WriteConfig
    \/ Rmtree

SpecConfig == InitConfig /\ [][NextConfig]_vars

(***************************************************************************)
(* What the claims speak of.                                               *)
(***************************************************************************)
\* The last call was the command or method `cmd`.
Did(cmd) == op.cmd = cmd

\* The next state is the one the command or method `cmd` ends in.
Does(cmd) == op'.cmd = cmd

\* What the connection of the next call will see: its tag tables.
TagTables(s) ==
    LET d == Connect(s) IN
    [tags |-> d.tags, entry_tags |-> d.entry_tags, note_tags |-> d.note_tags]

\* The notebooks create-entry's arguments name, by name or else by id.
NamedNotebooks(d, args) ==
    {nb \in d.notebooks :
        IF args.notebook # NoName THEN nb.name = args.notebook
        ELSE nb.id = args.notebook_id}

\* The messages that contain 'Failed'.
ContainsFailed(message) ==
    message \in {"Failed to create notebook",
                 "Failed to create entry",
                 "Failed to create entry: Notebook not found",
                 "Failed to create entry: Notebook ID not found",
                 "Failed to create entry: Attachment not found",
                 "Failed to create note",
                 "Failed to merge tags",
                 "Failed to merge tags: Invalid tag IDs"}

\* The names get_entry_tags lists for an entry.
TagNamesOf(d, entry_id) == {t.name : t \in EntryTagRows(d, entry_id)}

\* Every link row references an existing tag.
LinksSound(d) ==
    /\ \A l \in d.entry_tags : \E t \in d.tags : t.id = l.tag_id
    /\ \A l \in d.note_tags : \E t \in d.tags : t.id = l.tag_id

\* The ids --tags of merge-tags names.
OldIds(args) == {args.tags[i].val : i \in 1..Len(args.tags)}

\* Some path of the list, at whatever position, is not in the file system.
SomePathMissing(paths) == \E i \in 1..Len(paths) : paths[i] \notin ExistingFiles

\* q occurs in s, letters compared without regard to case.
Contains(q, s) ==
    /\ s # NullStr
    /\ \E i \in 1..(Len(s) - Len(q) + 1) :
          \A j \in 1..Len(q) : Lower(s[i + j - 1]) = Lower(q[j])

(***************************************************************************)
(* C1: create-entry into a notebook whose status is 'archived' returns no  *)
(* data and inserts no entry row, whatever the title, content,             *)
(* attachments and tags.                                                   *)
(***************************************************************************)
C1_ArchivedNotebookRejectsEntry ==
    [][ (/\ Does("create-entry")
         /\ \E nb \in NamedNotebooks(db, op'.args) : nb.status = "archived")
        => (ret'.data = DataNone /\ db'.entries = db.entries) ]_vars

(***************************************************************************)
(* C2: create-notebook with a name that exists returns a failure result    *)
(* with null data and leaves the notebooks table as it was: exactly one    *)
(* row of that name, with its id, description and status.                  *)
(***************************************************************************)
C2_DuplicateNotebookRejected ==
    [][ (Does("create-notebook") /\ NotebookNameTaken(db, op'.args.name))
        => /\ ret' = [message |-> "Failed to create notebook", data |-> DataNone]
           /\ db'.notebooks = db.notebooks
           /\ Cardinality({nb \in db'.notebooks : nb.name = op'.args.name}) = 1
      ]_vars

\* A second create-notebook of a name, with another description, has failed.
C2_Witness ==
    /\ Did("create-notebook")
    /\ ret.data = DataNone
    /\ \E nb \in db.notebooks :
          nb.name = op.args.name /\ nb.description # op.args.description

(***************************************************************************)
(* C3: where every link row references an existing tag, a successful       *)
(* merge of existing tags gives every entry that carried an old tag its    *)
(* other tags plus the new one, linked once, leaves the tags of the other  *)
(* entries alone, and leaves no tag with an old name.                      *)
(***************************************************************************)
C3_MergeReassignsEntryTags ==
    [][ (/\ Does("merge-tags")
         /\ ret'.message = "Tags merged successfully"
         /\ LinksSound(db)
         /\ \A id \in OldIds(op'.args) : \E t \in db.tags : t.id = id)
        => LET old == {t \in db.tags : t.id \in OldIds(op'.args)}
               oldNames == {t.name : t \in old}
               new == {t \in db'.tags : t.name = op'.args.new_tag}
           IN  /\ Cardinality(new) = 1
               /\ \A e \in {r.id : r \in db.entries} \cup
                           {l.entry_id : l \in db.entry_tags} :
                     /\ TagNamesOf(db', e) =
                           IF TagNamesOf(db, e) \cap oldNames # {}
                           THEN (TagNamesOf(db, e) \ oldNames)
                                    \cup {op'.args.new_tag}
                           ELSE TagNamesOf(db, e)
                     /\ TagNamesOf(db, e) \cap oldNames # {}
                           => Cardinality({l \in db'.entry_tags :
                                 /\ l.entry_id = e
                                 /\ \E n \in new : l.tag_id = n.id}) = 1
               /\ \A t \in db'.tags : t.name \notin oldNames
      ]_vars

\* A merge of two tags has succeeded; one entry carried both and now lists
\* the new tag alone, and every link to a tag that is gone is a link of an
\* entry that has the new tag.
C3_Witness ==
    /\ Did("merge-tags")
    /\ ret.message = "Tags merged successfully"
    /\ Cardinality(OldIds(op.args)) = 2
    /\ \E e \in db.entries :
          /\ \A id \in OldIds(op.args) :
                [entry_id |-> e.id, tag_id |-> id] \in db.entry_tags
          /\ TagNamesOf(db, e.id) = {op.args.new_tag}
    /\ \A l \in db.entry_tags :
          \/ \E t \in db.tags : t.id = l.tag_id
          \/ l.tag_id \in OldIds(op.args)

(***************************************************************************)
(* C4: after a successful merge no row of entry_tags and no row of         *)
(* note_tags has a tag_id that is one of the merged ids.                   *)
(***************************************************************************)
C4_MergeDeletesOldLinks ==
    (Did("merge-tags") /\ ret.message = "Tags merged successfully")
    => \A l \in db.entry_tags \cup db.note_tags :
          l.tag_id \notin OldIds(op.args)

(***************************************************************************)
(* C5: merge-tags is atomic.  A merge whose new name is the name of an     *)
(* existing tag fails, and after a merge that fails the next call sees     *)
(* the tags, entry_tags and note_tags tables the merge started from.       *)
(***************************************************************************)
C5_FailedMergeChangesNothing ==
    [][ Does("merge-tags")
        => /\ TagNameTaken(db, op'.args.new_tag)
                => ret'.message # "Tags merged successfully"
           /\ ret'.message # "Tags merged successfully"
                => TagTables(Store(db', conn')) = TagTables(Current)
      ]_vars

\* A merge has failed after its transaction had inserted the new tag.
C5_Witness ==
    /\ Did("merge-tags")
    /\ ret.message = "Failed to merge tags"
    /\ \E t \in conn.tags : t.name = op.args.new_tag /\ t \notin db.tags

(***************************************************************************)
(* C6: tag creation is create-or-get: create_tag with the name of a tag    *)
(* returns the id of that tag, and one row of that name remains.           *)
(***************************************************************************)
C6_CreateTagIsCreateOrGet ==
    Did("create_tag")
    => /\ \E t \in db.tags : t.name = op.args.name /\ t.id = ret
       /\ Cardinality({t \in db.tags : t.name = op.args.name}) = 1

(***************************************************************************)
(* C7: search with the empty string as query returns no result, with or    *)
(* without a tag filter, also when entries exist.                          *)
(***************************************************************************)
C7_EmptyQueryFindsNothing ==
    (Did("search") /\ op.args.query = <<>>) => ret.data = DataList(<<>>)

(***************************************************************************)
(* C8: search with a non-empty query q returns exactly the entries whose   *)
(* title or content contains q, each once and with its notebook id; with   *)
(* a tag, exactly those of them that entry_tags links to the tag.          *)
(***************************************************************************)
C8_SearchFindsSubstring ==
    (Did("search") /\ op.args.query # <<>>)
    => LET q == op.args.query
           want == {e \in db.entries :
                      /\ Contains(q, e.title) \/ Contains(q, e.content)
                      /\ op.args.tag # NULL
                            => [entry_id |-> e.id, tag_id |-> op.args.tag]
                                  \in db.entry_tags}
           rows == ret.data.rows
       IN  /\ {rows[i].ID : i \in 1..Len(rows)} = {e.id : e \in want}
           /\ Len(rows) = Cardinality(want)
           /\ \A i \in 1..Len(rows) : \E e \in want :
                 e.id = rows[i].ID /\ e.notebook_id = rows[i].NotebookID

(***************************************************************************)
(* C9, as claimed: create-entry with a path in --attachments that does     *)
(* not exist fails with an 'Attachment not found' message and null data    *)
(* and inserts nothing.                                                    *)
(***************************************************************************)
C9_MissingAttachmentMessage ==
    [][ (Does("create-entry") /\ SomePathMissing(op'.args.attachments))
        => /\ ret' = [message |-> "Failed to create entry: Attachment not found",
                      data |-> DataNone]
           /\ db' = db
      ]_vars

(***************************************************************************)
(* C9, amended: create-entry with a path in --attachments that does not    *)
(* exist, at any position, fails with null data and inserts nothing: no    *)
(* entry, attachment, tag or link.  The message is 'Attachment not found'  *)
(* when the notebook named exists, and that the notebook was not found     *)
(* otherwise.                                                              *)
(***************************************************************************)
C9_MissingAttachmentRejected ==
    [][ (Does("create-entry") /\ SomePathMissing(op'.args.attachments))
        => /\ ret'.data = DataNone
           /\ ret'.message =
                 IF NamedNotebooks(db, op'.args) # {}
                 THEN "Failed to create entry: Attachment not found"
                 ELSE IF op'.args.notebook = NoName /\ Truthy(op'.args.notebook_id)
                 THEN "Failed to create entry: Notebook ID not found"
                 ELSE "Failed to create entry: Notebook not found"
           /\ db' = db
      ]_vars

\* create-entry with tags and an existing path before the missing one was
\* refused for the missing one.
C9_Witness ==
    /\ Did("create-entry")
    /\ ret.message = "Failed to create entry: Attachment not found"
    /\ Len(op.args.attachments) = 2
    /\ PathExists(op.args.attachments[1])
    /\ op.args.tags # <<>>

AttachmentsOf(d, entry_id, note_id) ==
    {a \in d.attachments : a.entry_id = entry_id /\ a.note_id = note_id}

\* A file of that stored name is in the configured attachments directory.
StoredFileExists(f, stored_name) ==
    \E file \in f.attachments : file.kind = "stored" /\ file.name = stored_name

(***************************************************************************)
(* C11: titles are unique per notebook.  create-entry with a (notebook,    *)
(* title) pair that exists returns null data and adds no row and no tag;   *)
(* with a title that only other notebooks have, it creates the entry.      *)
(***************************************************************************)
C11_TitleUniquePerNotebook ==
    /\ [](\A e1, e2 \in db.entries :
            (e1.notebook_id = e2.notebook_id /\ e1.title = e2.title)
            => e1 = e2)
    /\ [][ (/\ Does("create-entry")
            /\ NamedNotebooks(db, op'.args) # {}
            /\ ~SomePathMissing(op'.args.attachments))
           => LET nb == CHOOSE n \in NamedNotebooks(db, op'.args) : TRUE
                  args == op'.args
              IN  IF EntryTitleTaken(db, nb.id, args.title)
                  THEN /\ ret'.data = DataNone
                       /\ db' = db
                  ELSE /\ ret'.data = DataId(db.seq.entries + 1)
                       /\ db'.entries = db.entries \cup
                             {[id |-> db.seq.entries + 1,
                               notebook_id |-> nb.id,
                               title |-> args.title,
                               content |-> args.content]}
         ]_vars

\* create-entry with an attachment and a tag no tag row has was refused for
\* a title its notebook has, a title another notebook has as well.
C11_Witness ==
    /\ Did("create-entry")
    /\ ret.data = DataNone
    /\ op.args.attachments # <<>>
    /\ op.args.tags # <<>>
    /\ \A i \in 1..Len(op.args.tags) : ~TagNameTaken(db, op.args.tags[i])
    /\ \E nb \in NamedNotebooks(db, op.args) :
          /\ EntryTitleTaken(db, nb.id, op.args.title)
          /\ \E e \in db.entries :
                e.title = op.args.title /\ e.notebook_id # nb.id

(***************************************************************************)
(* C12: create-note with an entry_id that is the id of no entry returns    *)
(* null data and inserts no note, so the entry_id of every note is the id  *)
(* of an entry.                                                            *)
(***************************************************************************)
C12_NotesBelongToEntries ==
    /\ [][ (/\ Does("create-note")
            /\ \A e \in db.entries : e.id # op'.args.entry_id)
           => (ret'.data = DataNone /\ db'.notes = db.notes) ]_vars
    /\ [](\A n \in db.notes : \E e \in db.entries : e.id = n.entry_id)

(***************************************************************************)
(* C13: after create-entry or create-note has succeeded with attachment    *)
(* paths, each path has a row of attachments owned by the new entry or     *)
(* note, with the file name of the path as original_name, and a file of    *)
(* the row's stored_name is in the attachments directory.                  *)
(***************************************************************************)
C13_AttachmentStored ==
    ((Did("create-entry") \/ Did("create-note")) /\ ret.data # DataNone)
    => \A i \in 1..Len(op.args.attachments) :
          \E a \in IF Did("create-entry")
                   THEN AttachmentsOf(db, ret.data.id, NULL)
                   ELSE AttachmentsOf(db, NULL, ret.data.id) :
             /\ a.original_name = PathName(op.args.attachments[i])
             /\ StoredFileExists(fs, a.stored_name)

\* The notebook listing and the tag listing a command returns.
Listings(s) ==
    <<ProjEB_list_notebooks(s).ret.data, ProjEB_list_tags(s).ret.data>>

\* The file --backup-file names, as restore finds it.
RestoredFile == ReadFile(fs, op'.args.backup_file)

C15_RestorePutsAttachmentsBack ==
    [][ (Does("restore") /\ ret'.message = "Restore completed successfully")
        => \A file \in RestoredFile.attachments : file \in fs'.attachments
      ]_vars

(***************************************************************************)
(* C16: restore fails cleanly.  When the backup path does not exist, is    *)
(* not a zip archive, or is a zip archive without the database file,       *)
(* restore returns 'Backup file not found' or 'Restore failed', the        *)
(* database file and the directories are unchanged, and the next command   *)
(* reads the unchanged database.                                           *)
(***************************************************************************)
C16_RestoreFailsCleanly ==
    [][ (/\ Does("restore")
         /\ ~(RestoredFile.exists /\ RestoredFile.zip /\ RestoredFile.has_db))
        => /\ ret'.message = IF RestoredFile.exists THEN "Restore failed"
                             ELSE "Backup file not found"
           /\ ret'.data = DataNone
           /\ db' = db
           /\ fs' = fs
           /\ Connect(Store(db', conn')) = db
           /\ Listings(Store(db', conn')) = Listings(Current)
      ]_vars

\* Restore of a zip archive that holds attachments but no database failed,
\* with notebooks in the database and no file in the attachments directory.
C16_Witness ==
    /\ Did("restore")
    /\ op.args.backup_file = ZipWithoutDatabase
    /\ ret.message = "Restore failed"
    /\ db.notebooks # {}
    /\ fs.attachments = {}

\* The file --file names, as import finds it.
ImportedFile == ReadJson(fs, op'.args.file)

\* The (name, description, status) triples of the notebooks table.
NotebookTriples(d) ==
    {<<nb.name, nb.description, nb.status>> : nb \in d.notebooks}

(***************************************************************************)
(* C17: whenever import returns 'Import failed', for a missing file, a     *)
(* text that is not JSON, or a document with a malformed notebook, entry   *)
(* or tag at any position, the database is as it was before the import.    *)
(***************************************************************************)
C17_FailedImportChangesNothing ==
    [][ (Does("import") /\ ret'.message = "Import failed")
        => (db' = db /\ Connect(Store(db', conn')) = Connect(Current)) ]_vars

(***************************************************************************)
(* C18: import of an exported file into an empty database gives notebooks  *)
(* with the (name, description, status) triples of the exported ones,      *)
(* whatever their status.                                                  *)
(***************************************************************************)
C18_ExportImportKeepsNotebooks ==
    [][ (/\ Does("import")
         /\ op'.args.file.kind = "export"
         /\ ret'.message = "Data imported successfully"
         /\ db = create_database)
        => NotebookTriples(db') =
              {<<row[2], row[3], row[5]>> :
                  row \in Range(ImportedFile.notebooks)}
      ]_vars

\* The messages that contain 'not writable'.
ContainsNotWritable(message) ==
    message \in {"Backup failed: Directory is not writable",
                 "Export failed: Directory is not writable"}

(***************************************************************************)
(* C19: backup into a backup directory that cannot be written, and export  *)
(* into an export directory that cannot be written, return a message that  *)
(* contains 'not writable', write no archive and no export file, and       *)
(* leave the database unchanged; where the directory can be written they   *)
(* return no such message.                                                 *)
(***************************************************************************)
C19_UnwritableDirectoryReported ==
    /\ [][ Does("backup")
           => IF fs.backup_writable
              THEN ~ContainsNotWritable(ret'.message)
              ELSE /\ ContainsNotWritable(ret'.message)
                   /\ ret'.data = DataNone
                   /\ fs' = fs
                   /\ db' = db
         ]_vars
    /\ [][ Does("export")
           => IF fs.export_writable
              THEN ~ContainsNotWritable(ret'.message)
              ELSE /\ ContainsNotWritable(ret'.message)
                   /\ ret'.data = DataNone
                   /\ fs' = fs
                   /\ db' = db
         ]_vars

\* A backup was refused for its directory, with an archive of an earlier
\* backup and an export in place and the export directory writable.
C19_Witness ==
    /\ Did("backup")
    /\ ret.message = "Backup failed: Directory is not writable"
    /\ ~fs.backup_writable
    /\ fs.export_writable
    /\ Len(fs.backups) = 1
    /\ Len(fs.exports) = 1
    /\ db.notebooks # {}

(***************************************************************************)
(* C20: with --api every command returns a {message, data} result and the  *)
(* exit status is 0 exactly when the data is not null, an empty list       *)
(* being data; without --api the output routine returns nothing.           *)
(***************************************************************************)
C20_ExitStatusTellsData ==
    [][ IF op'.api
        THEN /\ DOMAIN ret' = {"message", "data"}
             /\ ret'.message # NoName
             /\ exit' \in {0, 1}
             /\ exit' = 0 <=> ret'.data # DataNone
             /\ ret'.data = DataList(<<>>) => exit' = 0
        ELSE ret' = Nothing
      ]_vars

\* search --api found nothing in a database that has a notebook, and the
\* process exited with status 0.
C20_Witness ==
    /\ Did("search")
    /\ op.api
    /\ ret.data = DataList(<<>>)
    /\ exit = 0
    /\ db.notebooks # {}

(***************************************************************************)
(* C21: constructing the application with a configuration that cannot be   *)
(* read, that lacks one of the sections database, attachments, backup,     *)
(* export, or that lacks the 'file' of database or the 'dir' of            *)
(* attachments, backup or export raises RuntimeError and creates neither   *)
(* the database file nor a directory.                                      *)
(***************************************************************************)
C21_BadConfigurationIsFatal ==
    [][ (Does("ProjEB") /\ fs.config # ValidConfig)
        => /\ ret'.raised = "RuntimeError"
           /\ fs'.database = fs.database
           /\ fs'.dirs = fs.dirs ]_vars

\* The connections the process has open.
OpenHandles(h) == h.opened + h.held

(***************************************************************************)
(* C22: every database handle an operation opens is closed when the        *)
(* operation returns, whether it succeeded or failed, so the number of     *)
(* open handles does not grow with the operations performed.               *)
(***************************************************************************)
C22_HandlesClosedOnReturn ==
    [][ /\ handles'.opened = 0
        /\ OpenHandles(handles') <= OpenHandles(handles) ]_vars

\* The names get_note_tags lists for a note.
NoteTagNamesOf(d, note_id) == {t.name : t \in NoteTagRows(d, note_id)}

(***************************************************************************)
(* C23: after a successful create-entry or create-note with --tags T, the  *)
(* tags get_entry_tags or get_note_tags lists for the new entry or note    *)
(* are exactly the names of T, whether a name was new or was a tag         *)
(* already, and every link row the command wrote has the id of an          *)
(* existing tag, not NULL.                                                 *)
(***************************************************************************)
C23_TagsGivenAreTagsListed ==
    [][ ((Does("create-entry") \/ Does("create-note")) /\ ret'.data # DataNone)
        => /\ Does("create-entry")
                => TagNamesOf(db', ret'.data.id) = Range(op'.args.tags)
           /\ Does("create-note")
                => NoteTagNamesOf(db', ret'.data.id) = Range(op'.args.tags)
           /\ \A l \in (db'.entry_tags \ db.entry_tags)
                       \cup (db'.note_tags \ db.note_tags) :
                 /\ l.tag_id # NULL
                 /\ \E g \in db'.tags : g.id = l.tag_id ]_vars

\* The imported entries that match an exported entry row: same title, same
\* content, in a notebook named as the notebook of the row is in the file.
MatchesOf(d, doc, row) ==
    {e \in d.entries :
        /\ e.title = row[3]
        /\ e.content = row[4]
        /\ \E nb \in d.notebooks, n \in Range(doc.notebooks) :
              /\ nb.id = e.notebook_id
              /\ n[1] = row[2]
              /\ n[2] = nb.name}

(***************************************************************************)
(* C24: after export and import of the exported file into an empty         *)
(* database, each exported entry has exactly one imported entry of its     *)
(* title and content, in the notebook that has the name of the entry's     *)
(* notebook in the exporting database, in whatever order the notebooks     *)
(* were exported; no other entry is imported.                              *)
(***************************************************************************)
C24_ImportedEntriesKeepNotebook ==
    [][ (/\ Does("import")
         /\ op'.args.file.kind = "export"
         /\ ret'.message = "Data imported successfully"
         /\ db = create_database)
        => /\ \A row \in Range(ImportedFile.entries) :
                 Cardinality(MatchesOf(db', ImportedFile, row)) = 1
           /\ Cardinality(db'.entries) = Len(ImportedFile.entries)
      ]_vars

\* An import into an empty database of a file with an entry in each of two
\* notebooks, the notebooks getting other ids than they had.
C24_Witness ==
    /\ Did("import")
    /\ ret.message = "Data imported successfully"
    /\ Cardinality(db.notebooks) = 2
    /\ Cardinality({e.notebook_id : e \in db.entries}) = 2
    /\ db.entry_tags = {}
    /\ \E nb \in db.notebooks : nb.id = 1 /\ nb.name = "n2"
    /\ \E n \in Range(ReadJson(fs, op.args.file).notebooks) :
          n[1] = 2 /\ n[2] = "n2"

(***************************************************************************)
(* C25: import makes entry-tag links only from links the database itself   *)
(* holds under the old id of an entry of the file, never from the file:    *)
(* a link row it writes belongs to an entry it created and is owed to a    *)
(* row of entry_tags under the id some entry has in the file.  So an       *)
(* import of an export file into an empty database writes no row of        *)
(* entry_tags, even when every exported entry was tagged.                  *)
(***************************************************************************)
C25_ImportLinksFromLiveDatabase ==
    [][ Does("import")
        => /\ \A l \in db'.entry_tags \ db.entry_tags :
                 /\ \E e \in db'.entries \ db.entries : e.id = l.entry_id
                 /\ \E row \in Range(ImportedFile.entries),
                       k \in db'.entry_tags : k.entry_id = row[1]
           /\ db.entry_tags = {} => db'.entry_tags = {}
           /\ db = create_database => db'.entry_tags = {}
      ]_vars

\* An import into an empty database of a file with entries and tags, from
\* a database where each entry was created with a tag.
C25_Witness ==
    /\ Did("import")
    /\ ret.message = "Data imported successfully"
    /\ ReadJson(fs, op.args.file).entries # <<>>
    /\ Len(ReadJson(fs, op.args.file).tags)
          = Len(ReadJson(fs, op.args.file).entries)
    /\ Cardinality(db.entries) = Len(ReadJson(fs, op.args.file).entries)
    /\ Cardinality(db.tags) = Len(ReadJson(fs, op.args.file).tags)
    /\ db.entry_tags = {}

(***************************************************************************)
(* C26: a successful merge_tags gives the new tag only to the entries and  *)
(* notes that carry one of the old tags when it runs; an old id that is    *)
(* the id of no tag, as after an earlier merge, brings the new tag to no   *)
(* entry and to no note.                                                   *)
(***************************************************************************)
C26_MergeFollowsExistingTagsOnly ==
    [][ (Does("merge-tags") /\ ret'.message = "Tags merged successfully")
        => /\ \A l \in db'.entry_tags \ db.entry_tags :
                 \E g \in EntryTagRows(db, l.entry_id) : g.id \in OldIds(op'.args)
           /\ \A l \in db'.note_tags \ db.note_tags :
                 \E g \in NoteTagRows(db, l.note_id) : g.id \in OldIds(op'.args)
      ]_vars

(***************************************************************************)
(* C27: delete_tag(t) removes the row t of tags and every row of           *)
(* entry_tags and of note_tags whose tag_id is t, and nothing else: the    *)
(* other tags, the links to other tags, the notebooks, the entries, the    *)
(* notes and the attachments are as they were.                             *)
(***************************************************************************)
C27_DeleteTagRemovesTagAndLinks ==
    [][ Does("delete_tag")
        => /\ db'.tags = {g \in db.tags : g.id # op'.args.tag_id}
           /\ db'.entry_tags =
                 {l \in db.entry_tags : l.tag_id # op'.args.tag_id}
           /\ db'.note_tags =
                 {l \in db.note_tags : l.tag_id # op'.args.tag_id}
           /\ db'.notebooks = db.notebooks
           /\ db'.entries = db.entries
           /\ db'.notes = db.notes
           /\ db'.attachments = db.attachments
           /\ db'.seq = db.seq
           /\ conn' = db'
      ]_vars

\* Tag 1 has been deleted after entry 1 was created with tags 1 and 2 and
\* note 1 was linked to tags 1 and 2: the links to tag 2 are all that is
\* left of them.
C27_Witness ==
    /\ Did("delete_tag")
    /\ op.args.tag_id = 1
    /\ \E e \in db.entries : e.id = 1
    /\ \A g \in db.tags : g.id # 1
    /\ \E g \in db.tags : g.id = 2
    /\ db.entry_tags = {[entry_id |-> 1, tag_id |-> 2]}
    /\ [note_id |-> 1, tag_id |-> 2] \in db.note_tags
    /\ \A l \in db.note_tags : l.tag_id # 1

(***************************************************************************)
(* C28: when the database file is missing, backup reports 'Backup failed:  *)
(* Database file not found' and leaves no new archive in the backup        *)
(* directory; every archive that is in the backup directory after a        *)
(* backup contains the database file.                                      *)
(***************************************************************************)
C28_NoArchiveWithoutDatabase ==
    [][ Does("backup")
        => /\ fs.database = "absent"
                => /\ ret'.message = "Backup failed: Database file not found"
                   /\ fs'.backups = fs.backups
           /\ \A i \in 1..Len(fs'.backups) : fs'.backups[i].has_db
      ]_vars

\* == of Python between values of any two types: an integer and a text are
\* unequal, where TLC would refuse to compare them.
PyEq(x, y) == ToString(x) = ToString(y)

(***************************************************************************)
(* C29: list-notes for an entry returns one record per note of that entry  *)
(* and of no other, where 'ID' is the id of the note, 'Content' its        *)
(* content and 'Created' its creation time.  (The creation time is no      *)
(* column of the model: the formula states the records, their ids and      *)
(* their contents.)                                                        *)
(***************************************************************************)
C29_ListNotesShowsContent ==
    [][ (Does("list-notes") /\ op'.api)
        => LET rows == ret'.data.rows
               notes == {n \in db.notes : n.entry_id = op'.args.entry_id}
           IN  /\ Len(rows) = Cardinality(notes)
               /\ \A n \in notes :
                     \E i \in 1..Len(rows) :
                        /\ rows[i].ID = n.id
                        /\ PyEq(rows[i].Content, n.content)
      ]_vars

\* The messages of a command that did what it was asked.
Succeeded(message) ==
    message \in {"Notebook created successfully",
                 "Entry created successfully",
                 "Note created successfully",
                 "Tags merged successfully",
                 "Data exported",
                 "Data imported successfully",
                 "Backup created",
                 "Restore completed successfully",
                 "Notebooks:", "Tags:", "Notes:", "Search results:"}

(***************************************************************************)
(* C30: in API mode a command exits with status 0 exactly when it          *)
(* succeeded: a successful create-notebook, create-entry, create-note,     *)
(* merge-tags, export, import, backup or restore exits 0, and a command    *)
(* that reports a failure exits with another status.                       *)
(***************************************************************************)
C30_ExitStatusTellsSuccess ==
    [][ op'.api => (exit' = 0 <=> Succeeded(ret'.message)) ]_vars

====
